---------------------------- MODULE Spec2Model ----------------------------
(***************************************************************************)
(* A model of WeChatAI's AI layer: the configuration store (ai_config.py), *)
(* the conversation manager (ai_manager.py) and the provider clients       *)
(* (ai_client.py).                                                         *)
(*                                                                         *)
(* Text is a sequence of pieces (characters or literal chunks), so that    *)
(* concatenation, strip() and f-strings are computed, not assumed.         *)
(* A ChatMessage is [role, content]: its timestamp (time.time()) and       *)
(* tokens fields are written once and never read by any operation of the   *)
(* manager or the clients, and are left out.                               *)
(* Optional values are sequences: <<>> is None, <<v>> is the value v.      *)
(***************************************************************************)
EXTENDS Integers, Sequences, FiniteSets, TLC

(* ------------------------------ bounds -------------------------------- *)

\* add_message calls made directly by the embedding application in one run
MaxAppends == 3

(* ------------------------------ values -------------------------------- *)

Groups == {"g1"}
Roles == {"system", "user", "assistant"}
Contents == {<<"a">>, <<"b">>}
Prompts == {<<"S">>, <<"T">>}
\* the values of max_history_length the configuration documents carry
Lengths == {0, 1, 2}

None == <<>>
Some(v) == <<v>>

Min(a, b) == IF a < b THEN a ELSE b
Max(a, b) == IF a > b THEN a ELSE b

\* Python's seq[start:] for any integer start
PySliceFrom(seq, start) ==
  LET n == Len(seq)
      i == IF start < 0 THEN Max(n + start, 0) ELSE Min(start, n)
  IN SubSeq(seq, i + 1, n)

\* seq[-1]
Last(seq) == seq[Len(seq)]

ChatMessage(role, content) == [role |-> role, content |-> content]

(* ------------------------- ai_types.py -------------------------------- *)

AIProvider == {"deepseek", "gemini", "qianwen", "openai", "newapi"}

AIProviderConfig(enabled, base_url, model) ==
  [enabled |-> enabled, api_key |-> "", base_url |-> base_url, model |-> model,
   temperature |-> "0.7", max_tokens |-> 2000, timeout |-> 30,
   proxy |-> None, custom_headers |-> None]

\* the default system prompt of ai_types.py:55 (an ASCII stand-in for the literal)
DefaultPrompt == <<"VictorAI-default-prompt">>

AISettings ==
  [enabled |-> TRUE,
   default_provider |-> "deepseek",
   stream_enabled |-> TRUE,
   system_prompt |-> DefaultPrompt,
   max_history_length |-> 10,
   auto_clear_history |-> FALSE,
   providers |->
     [p \in AIProvider |->
        CASE p = "deepseek" ->
               AIProviderConfig(TRUE, "https://api.deepseek.com/v1", "deepseek-chat")
          [] p = "gemini" ->
               AIProviderConfig(FALSE, "https://generativelanguage.googleapis.com/v1beta",
                                "gemini-1.5-flash")
          [] p = "qianwen" ->
               AIProviderConfig(FALSE, "https://dashscope.aliyuncs.com/compatible-mode/v1",
                                "qwen-turbo")
          [] p = "openai" ->
               AIProviderConfig(FALSE, "https://api.openai.com/v1", "gpt-3.5-turbo")
          [] OTHER ->
               AIProviderConfig(FALSE, "", "gpt-3.5-turbo")]]

(* ------------------------- ai_config.py ------------------------------- *)

\* dict.get(key, default)
Get(data, key, default) == IF key \in DOMAIN data THEN data[key] ELSE default

\* dict order of settings.providers: the five defaults in the order of
\* AISettings.__post_init__, then the names added by set_provider_config
ProviderOrder == <<"deepseek", "gemini", "qianwen", "openai", "newapi", "demo">>

RECURSIVE serialize_providers(_, _)
serialize_providers(providers, i) ==
  IF i > Len(ProviderOrder) THEN <<>>
  ELSE LET name == ProviderOrder[i]
       IN (IF name \in DOMAIN providers
             THEN <<[name |-> name, obj |-> TRUE, fields |-> providers[name]]>>
             ELSE <<>>)
          \o serialize_providers(providers, i + 1)

\* the document written by save_config / export_config
serialize_settings(s) ==
  [enabled |-> s.enabled,
   default_provider |-> s.default_provider,
   stream_enabled |-> s.stream_enabled,
   system_prompt |-> s.system_prompt,
   max_history_length |-> s.max_history_length,
   auto_clear_history |-> s.auto_clear_history,
   providers |-> serialize_providers(s.providers, 1)]

\* lines 116-125: one provider entry applied to the existing config object
deserialize_provider(config, d) ==
  [enabled |-> Get(d, "enabled", FALSE),
   api_key |-> Get(d, "api_key", ""),
   base_url |-> Get(d, "base_url", ""),
   model |-> Get(d, "model", ""),
   temperature |-> Get(d, "temperature", "0.7"),
   max_tokens |-> Get(d, "max_tokens", 2000),
   timeout |-> Get(d, "timeout", 30),
   proxy |-> Get(d, "proxy", None),
   custom_headers |-> Get(d, "custom_headers", None)]

\* lines 114-125: the loop over providers_data.items(), in document order; an
\* entry that is no JSON object raises at its first .get, after the entries
\* before it were applied
RECURSIVE deserialize_providers(_, _, _)
deserialize_providers(providers, entries, i) ==
  IF i > Len(entries) THEN [ok |-> TRUE, providers |-> providers]
  ELSE LET e == entries[i]
       IN IF e.name \notin DOMAIN providers
            THEN deserialize_providers(providers, entries, i + 1)
            ELSE IF ~e.obj
              THEN [ok |-> FALSE, providers |-> providers]
              ELSE deserialize_providers(
                     [providers EXCEPT ![e.name] = deserialize_provider(@, e.fields)],
                     entries, i + 1)

\* _deserialize_settings: assignments in source order; AIProvider(value)
\* raises ValueError for a value outside the enumeration, after
\* settings.enabled was assigned
deserialize_settings(s, data) ==
  LET s1 == [s EXCEPT !.enabled = Get(data, "enabled", TRUE)]
      dp == Get(data, "default_provider", "deepseek")
  IN IF dp \notin AIProvider
       THEN [ok |-> FALSE, settings |-> s1]
       ELSE
         LET s2 == [s1 EXCEPT
                      !.default_provider = dp,
                      !.stream_enabled = Get(data, "stream_enabled", TRUE),
                      !.system_prompt = Get(data, "system_prompt", DefaultPrompt),
                      !.max_history_length = Get(data, "max_history_length", 10),
                      !.auto_clear_history = Get(data, "auto_clear_history", FALSE)]
             r == deserialize_providers(s2.providers, Get(data, "providers", <<>>), 1)
         IN [ok |-> r.ok, settings |-> [s2 EXCEPT !.providers = r.providers]]

\* save_config: the file after the call; a failed write leaves it as it was
\* (the exception is swallowed into the boolean result)
save_config(file, s, write_ok) ==
  IF write_ok THEN Some(serialize_settings(s)) ELSE file

get_provider_config(s, provider) ==
  IF provider \in DOMAIN s.providers THEN Some(s.providers[provider]) ELSE None

\* a _load_env that applies no variable
load_env_skipped(s, e) == s

\* _load_env: a non-empty variable replaces the credential of its provider
load_env(s, e) ==
  [s EXCEPT !.providers =
     [p \in DOMAIN @ |->
        IF p \in DOMAIN e /\ e[p] # ""
          THEN [@[p] EXCEPT !.api_key = e[p]]
          ELSE @[p]]]

\* what open() and json.load() do with an existing file
ReadOutcomes == {"ok", "unreadable", "invalid_json"}

\* load_config: its boolean result, the settings and the file after the call.
\* Without a file the defaults are saved and the result is True whatever
\* save_config returned; an exception of open, json.load or
\* _deserialize_settings gives False, with what _deserialize_settings had
\* assigned before it raised left in place.
load_config(s, file, read, write_ok) ==
  IF file = None
    THEN [ok |-> TRUE, settings |-> s, file |-> save_config(file, s, write_ok)]
    ELSE IF read # "ok"
      THEN [ok |-> FALSE, settings |-> s, file |-> file]
      ELSE LET r == deserialize_settings(s, file[1])
           IN [ok |-> r.ok, settings |-> r.settings, file |-> file]

\* AIConfigManager.__init__: AISettings(), _load_env(), load_config()
construct(e, file, read, write_ok) ==
  load_config(load_env(AISettings, e), file, read, write_ok)

(* ------------------------- ai_manager.py: histories ------------------- *)

\* a get_chat_history that synthesizes the system message on every call
get_chat_history_resynthesize(histories, group_name, s) ==
  [g \in DOMAIN histories \cup {group_name} |->
     IF g = group_name
       THEN <<ChatMessage("system", s.system_prompt)>>
       ELSE histories[g]]

\* get_chat_history: the history map after the call
get_chat_history(histories, group_name, s) ==
  IF group_name \notin DOMAIN histories
    THEN [g \in DOMAIN histories \cup {group_name} |->
            IF g = group_name
              THEN <<ChatMessage("system", s.system_prompt)>>
              ELSE histories[g]]
    ELSE histories

\* a retention step that keeps the most recent messages only
trim_history_recent_only(history, max_length) ==
  IF Len(history) > max_length + 1
    THEN PySliceFrom(history, -(max_length + 1))
    ELSE history

\* lines 76-81: the retention step applied to the list after the append
trim_history(history, max_length) ==
  IF Len(history) > max_length + 1
    THEN <<history[1]>> \o PySliceFrom(history, -max_length)
    ELSE history

\* an add_message without the retention step
add_message_untrimmed(histories, group_name, role, content, s) ==
  LET h1 == get_chat_history(histories, group_name, s)
  IN [h1 EXCEPT ![group_name] = Append(@, ChatMessage(role, content))]

\* add_message: the history map after the call
add_message(histories, group_name, role, content, s) ==
  LET h1 == get_chat_history(histories, group_name, s)
      history == Append(h1[group_name], ChatMessage(role, content))
  IN [h1 EXCEPT ![group_name] = trim_history(history, s.max_history_length)]

\* a clear_chat_history that keeps the system message the history had
clear_chat_history_keeping_system(histories, group_name, s) ==
  IF group_name \in DOMAIN histories
    THEN [histories EXCEPT ![group_name] = <<@[1]>>]
    ELSE histories

\* a clear_chat_history that resets every history once the group has one
clear_chat_history_everywhere(histories, group_name, s) ==
  IF group_name \in DOMAIN histories
    THEN [g \in DOMAIN histories |-> <<ChatMessage("system", s.system_prompt)>>]
    ELSE histories

\* a clear_chat_history that gives a group without a history a new one
clear_chat_history_creating(histories, group_name, s) ==
  [g \in DOMAIN histories \cup {group_name} |->
     IF g = group_name THEN <<ChatMessage("system", s.system_prompt)>>
                       ELSE histories[g]]

\* clear_chat_history: the history map after the call
clear_chat_history(histories, group_name, s) ==
  IF group_name \in DOMAIN histories
    THEN [histories EXCEPT ![group_name] = <<ChatMessage("system", s.system_prompt)>>]
    ELSE histories

\* clear_all_histories
clear_all_histories == <<>>

(* ------------------------- texts --------------------------------------- *)

\* str.strip(): leading and trailing whitespace removed
RECURSIVE LStrip(_)
LStrip(t) == IF t # <<>> /\ Head(t) = " " THEN LStrip(Tail(t)) ELSE t

RECURSIVE RStrip(_)
RStrip(t) ==
  IF t # <<>> /\ t[Len(t)] = " " THEN RStrip(SubSeq(t, 1, Len(t) - 1)) ELSE t

Strip(t) == RStrip(LStrip(t))

\* the concatenation of a sequence of texts
RECURSIVE Concat(_)
Concat(ts) == IF ts = <<>> THEN <<>> ELSE Head(ts) \o Concat(Tail(ts))

\* ai_manager.py:93 and :140, the not-configured text (ASCII stand-ins for the
\* literals around the provider name)
NotConfiguredText(provider) ==
  <<"provider ", provider, " is not configured or not enabled">>

\* ai_manager.py:118
NoValidResultText == <<"AI returned no valid result, try again later">>

\* ai_manager.py:122 and :171
ErrorText(detail) == <<"AI call error: ">> \o detail

\* ai_client.py:127 and :156, the client's wrapping of a vendor fault
ChatFaultText(detail) == <<"OpenAI-compatible API call failed: ">> \o detail
StreamFaultText(detail) == <<"stream API call failed: ">> \o detail
\* ai_client.py:220
GeminiFaultText(detail) == <<"Gemini API call failed: ">> \o detail

(* ------------------------- ai_client.py -------------------------------- *)

\* BaseAIClient.__init__ / AIClientFactory.create_client: a new client has no
\* session; config is what __init__ was given and copied into the vendor
\* client (lines 60-64, 163-164). opener names the call that opened the
\* session the client holds now.
create_client(provider, config) ==
  [variant |-> IF provider = "gemini" THEN "gemini" ELSE "compatible",
   config |-> config, session |-> "none", opener |-> ""]

\* a get_client that builds a new client when the config passed differs from
\* the one the cached client was built from
get_client_rebuilding(clients, provider, config) ==
  IF provider \in DOMAIN clients /\ clients[provider].config = config
    THEN clients
    ELSE [p \in DOMAIN clients \cup {provider} |->
            IF p = provider THEN create_client(provider, config) ELSE clients[p]]

\* AIClientManager.get_client: the client cache after the call
get_client(clients, provider, config) ==
  IF provider \notin DOMAIN clients
    THEN [p \in DOMAIN clients \cup {provider} |->
            IF p = provider THEN create_client(provider, config) ELSE clients[p]]
    ELSE clients

\* BaseAIClient.__aenter__: self.session is replaced by a new open session
aenter(client) == [client EXCEPT !.session = "open"]

\* __aenter__ run by call c
aenter_by(client, c) == [aenter(client) EXCEPT !.opener = c]

\* the sessions left open and unreferenced by __aenter__: the one it replaces
aenter_orphans(client) == IF client.session = "open" THEN 1 ELSE 0

\* BaseAIClient.__aexit__: closes whatever self.session refers to now
aexit(client) ==
  IF client.session # "none" THEN [client EXCEPT !.session = "closed"] ELSE client

\* "async with client" left by a call: __aexit__ on the client the call holds,
\* which is the cached one unless close_all dropped it meanwhile
release(clients, call) ==
  IF call.detached THEN clients ELSE [clients EXCEPT ![call.provider] = aexit(@)]

(* ------------------------- ai_manager.py: calls ------------------------ *)

\* lines 87-88 / 134-135: "if not provider" takes None and "" alike
resolve_provider(s, provider) ==
  IF provider = "" THEN s.default_provider ELSE provider

\* a validation that forgets the credential
provider_usable_without_key(s, provider) ==
  LET config == get_provider_config(s, provider)
  IN config # None /\ config[1].enabled

\* a validation that forgets the enabled flag
provider_usable_when_disabled(s, provider) ==
  LET config == get_provider_config(s, provider)
  IN config # None /\ config[1].api_key # ""

\* lines 91-92 / 138-139: config present, enabled and with a credential
provider_usable(s, provider) ==
  LET config == get_provider_config(s, provider)
  IN config # None /\ config[1].enabled /\ config[1].api_key # ""

\* a request that carries the new user turn only
ChatCompletionRequest_last_only(config, history, stream) ==
  [model |-> config.model, messages |-> <<history[Len(history)]>>,
   temperature |-> config.temperature, max_tokens |-> config.max_tokens,
   stream |-> stream]

\* lines 100-106 / 148-154
ChatCompletionRequest(config, history, stream) ==
  [model |-> config.model, messages |-> history,
   temperature |-> config.temperature, max_tokens |-> config.max_tokens,
   stream |-> stream]

\* a result of an operation: a returned value, or a raised exception
Returned(v) == [raised |-> FALSE, value |-> v]
Raised(detail) == [raised |-> TRUE, value |-> detail]

\* an except clause that lets the exception through
reraise(detail) == Raised(detail)

\* lines 120-122: get_ai_response's except clause
response_except(detail) == Returned(ErrorText(detail))

\* a handling of the response that records an assistant turn whatever the
\* completion carries
response_reply_recording(choices) ==
  [append |-> TRUE, text |-> IF choices = <<>> THEN <<>> ELSE Strip(choices[1])]

\* lines 113-118: what get_ai_response does with the client's response; choices
\* is the list of the choices' message contents
response_reply(choices) ==
  IF choices # <<>> /\ choices[1] # <<>>
    THEN [append |-> TRUE, text |-> Strip(choices[1])]
    ELSE [append |-> FALSE, text |-> NoValidResultText]

(* ------------------------- model_fetcher.py ---------------------------- *)

\* In this part a credential is a sequence of characters and an endpoint a
\* sequence of pieces of its text; a model id is [kind, name], kind telling a
\* JSON string from a JSON number.
StrId(name) == [kind |-> "str", name |-> name]
IntId(name) == [kind |-> "int", name |-> name]

\* the order sorted() puts the ids of this model in
Rank(id) ==
  CASE id.name = "alpha" -> 1
    [] id.name = "beta" -> 2
    [] id.name = "7" -> 7
    [] OTHER -> 9

RECURSIVE Insert(_, _)
Insert(sorted, id) ==
  IF sorted = <<>> THEN <<id>>
  ELSE IF Rank(id) < Rank(Head(sorted))
    THEN <<id>> \o sorted
    ELSE <<Head(sorted)>> \o Insert(Tail(sorted), id)

RECURSIVE Sorted(_)
Sorted(ids) ==
  IF ids = <<>> THEN <<>> ELSE Insert(Sorted(SubSeq(ids, 1, Len(ids) - 1)), ids[Len(ids)])

\* str.lower() on the pieces of the endpoints of this model
Lower(piece) ==
  CASE piece = "DeepSeek" -> "deepseek"
    [] piece = "https://API." -> "https://api."
    [] piece = "DashScope.Aliyuncs.com" -> "dashscope.aliyuncs.com"
    [] piece = "API.OpenAI.com" -> "api.openai.com"
    [] piece = "Anthropic" -> "anthropic"
    [] OTHER -> piece

\* needle in base_url.lower(), for a needle that is one piece
Contains(base_url, needle) == \E i \in DOMAIN base_url : Lower(base_url[i]) = needle

\* a detect_service_type that tries the api.openai.com rule first
detect_service_type_openai_first(base_url) ==
  IF Contains(base_url, "api.openai.com") THEN "openai"
  ELSE IF Contains(base_url, "deepseek") THEN "deepseek"
  ELSE IF Contains(base_url, "dashscope.aliyuncs.com") THEN "qianwen"
  ELSE IF Contains(base_url, "generativelanguage.googleapis.com") THEN "gemini"
  ELSE IF Contains(base_url, "claude") \/ Contains(base_url, "anthropic") THEN "claude"
  ELSE "openai"

\* detect_service_type: the rules in source order, the first match wins
detect_service_type(base_url) ==
  IF Contains(base_url, "deepseek") THEN "deepseek"
  ELSE IF Contains(base_url, "dashscope.aliyuncs.com") THEN "qianwen"
  ELSE IF Contains(base_url, "generativelanguage.googleapis.com") THEN "gemini"
  ELSE IF Contains(base_url, "api.openai.com") THEN "openai"
  ELSE IF Contains(base_url, "claude") \/ Contains(base_url, "anthropic") THEN "claude"
  ELSE "openai"

\* the static lists of get_default_models
DefaultModels ==
  [openai |-> <<StrId("gpt-3.5-turbo"), StrId("gpt-4"), StrId("gpt-4-turbo"),
                StrId("gpt-4o"), StrId("gpt-4o-mini")>>,
   deepseek |-> <<StrId("deepseek-chat"), StrId("deepseek-coder")>>,
   qianwen |-> <<StrId("qwen-turbo"), StrId("qwen-plus"), StrId("qwen-max"),
                 StrId("qwen-long")>>,
   gemini |-> <<StrId("gemini-1.5-flash"), StrId("gemini-1.5-pro"),
                StrId("gemini-pro")>>,
   claude |-> <<StrId("claude-3-haiku-20240307"), StrId("claude-3-sonnet-20240229"),
                StrId("claude-3-opus-20240229"), StrId("claude-3-5-sonnet-20241022")>>]

get_default_models(service_type) ==
  IF service_type \in DOMAIN DefaultModels
    THEN DefaultModels[service_type]
    ELSE DefaultModels["openai"]

\* lines 19-26: the URL of the listing, the endpoint coerced to end with /v1
models_url(base_url) ==
  (IF Last(base_url) = "/v1" THEN base_url
   ELSE IF Last(base_url) = "/" THEN base_url \o <<"v1">>
   ELSE base_url \o <<"/v1">>) \o <<"/models">>

\* lines 39-42: the ids of the entries that are objects with an "id"
RECURSIVE collect_ids(_)
collect_ids(data) ==
  IF data = <<>> THEN <<>>
  ELSE (IF Head(data).dict /\ Head(data).id # None THEN Head(data).id ELSE <<>>)
       \o collect_ids(Tail(data))

\* what a function of this part hands back: a list, None (none = TRUE), or an
\* exception (raised = TRUE); called tells whether the network was used
Listing(models, called) ==
  [raised |-> FALSE, none |-> FALSE, models |-> models, called |-> called]
NoListing(called) ==
  [raised |-> FALSE, none |-> TRUE, models |-> <<>>, called |-> called]
ListingRaised(called) ==
  [raised |-> TRUE, none |-> FALSE, models |-> <<>>, called |-> called]

\* "if models:" on what was handed back
Truthy(r) == ~r.raised /\ ~r.none /\ r.models # <<>>

\* fetch_models_from_api, for a network that answers net. A 200 whose body has
\* no list under "data" falls out of the function, which hands back None;
\* sorted() raises on ids of mixed types and the except clause hands back [].
fetch_models_from_api(api_key, base_url, net) ==
  IF api_key = <<>> \/ base_url = <<>> THEN Listing(<<>>, FALSE)
  ELSE CASE net.kind = "ok" ->
              LET ids == collect_ids(net.data)
              IN IF \E i, j \in DOMAIN ids : ids[i].kind # ids[j].kind
                   THEN Listing(<<>>, TRUE)
                   ELSE Listing(Sorted(ids), TRUE)
         [] net.kind \in {"no_data", "data_not_list", "body_is_list"} -> NoListing(TRUE)
         [] OTHER -> Listing(<<>>, TRUE)

\* a fetch_models_sync without its outer except clause
fetch_models_sync_uncaught(api_key, base_url, net, sync) ==
  IF sync = "future_timeout"
    THEN ListingRaised(api_key # <<>> /\ base_url # <<>>)
    ELSE fetch_models_from_api(api_key, base_url, net)

\* fetch_models_sync: the coroutine run to its end on whichever loop is at
\* hand, or future.result() timing out in the thread-pool branch, which the
\* outer except clause turns into []
fetch_models_sync(api_key, base_url, net, sync) ==
  IF sync = "future_timeout"
    THEN Listing(<<>>, api_key # <<>> /\ base_url # <<>>)
    ELSE fetch_models_from_api(api_key, base_url, net)

get_models_with_fallback(api_key, base_url, net, sync) ==
  IF api_key = <<>> \/ base_url = <<>>
    THEN Listing(get_default_models(IF base_url # <<>>
                                      THEN detect_service_type(base_url)
                                      ELSE "openai"), FALSE)
    ELSE LET r == fetch_models_sync(api_key, base_url, net, sync)
         IN IF r.raised THEN r
            ELSE IF Truthy(r) THEN r
            ELSE Listing(get_default_models(detect_service_type(base_url)), r.called)

\* ModelCache._cache_timeout, in seconds
CacheTimeout == 300
\* the characters of the credential that enter the cache key
KeyPrefixLen == 8

\* get_cache_key: f"{key_prefix}_{base_url}"
get_cache_key(api_key, base_url) ==
  (IF Len(api_key) >= KeyPrefixLen THEN SubSeq(api_key, 1, KeyPrefixLen) ELSE api_key)
    \o <<"_">> \o base_url

\* a lookup that takes an entry for valid once its age exceeds the timeout
get_cached_models_flipped(cache, api_key, base_url, now) ==
  LET cache_key == get_cache_key(api_key, base_url)
  IN IF cache_key \in DOMAIN cache /\ now - cache[cache_key].timestamp > CacheTimeout
       THEN Some(cache[cache_key].models)
       ELSE None

\* a lookup that takes an entry for valid up to and including the timeout
get_cached_models_inclusive(cache, api_key, base_url, now) ==
  LET cache_key == get_cache_key(api_key, base_url)
  IN IF cache_key \in DOMAIN cache /\ now - cache[cache_key].timestamp <= CacheTimeout
       THEN Some(cache[cache_key].models)
       ELSE None

\* get_cached_models at time now: Some(list), or None
get_cached_models(cache, api_key, base_url, now) ==
  LET cache_key == get_cache_key(api_key, base_url)
  IN IF cache_key \in DOMAIN cache /\ now - cache[cache_key].timestamp < CacheTimeout
       THEN Some(cache[cache_key].models)
       ELSE None

\* a cache_models that keeps the timestamp of an entry it overwrites
cache_models_keeping_timestamp(cache, api_key, base_url, models, now) ==
  LET cache_key == get_cache_key(api_key, base_url)
  IN [k \in DOMAIN cache \cup {cache_key} |->
        IF k = cache_key
          THEN [models |-> models,
                timestamp |-> IF k \in DOMAIN cache THEN cache[k].timestamp ELSE now]
          ELSE cache[k]]

\* cache_models at time now: the cache after the call
cache_models(cache, api_key, base_url, models, now) ==
  LET cache_key == get_cache_key(api_key, base_url)
  IN [k \in DOMAIN cache \cup {cache_key} |->
        IF k = cache_key THEN [models |-> models, timestamp |-> now] ELSE cache[k]]

\* clear_cache
clear_cache == <<>>

\* ModelFetchThread.run (settings_dialog.py:23-40): the cache after the run,
\* the signal emitted and its list, and whether the network was used
run(cache, api_key, base_url, net, sync, now) ==
  LET cached_models == get_cached_models(cache, api_key, base_url, now)
  IN IF cached_models # None /\ cached_models[1] # <<>>
       THEN [cache |-> cache, signal |-> "models_fetched",
             models |-> cached_models[1], called |-> FALSE]
       ELSE LET r == get_models_with_fallback(api_key, base_url, net, sync)
            IN IF r.raised
                 THEN [cache |-> cache, signal |-> "fetch_failed",
                       models |-> <<>>, called |-> r.called]
                 ELSE IF Truthy(r)
                   THEN [cache |-> cache_models(cache, api_key, base_url, r.models, now),
                         signal |-> "models_fetched", models |-> r.models,
                         called |-> r.called]
                   ELSE [cache |-> cache, signal |-> "fetch_failed",
                         models |-> <<>>, called |-> r.called]

(* ------------------------------ state --------------------------------- *)

VARIABLES
  settings,        \* AIConfigManager.settings
  config_file,     \* the persisted document: None, or Some(document)
  chat_histories,  \* ModernAIManager.chat_histories: group -> list of messages
  clients,         \* AIClientManager.clients: provider -> client
  orphans,         \* sessions opened, never closed, and referenced by no client
  calls,           \* the get_ai_response / get_ai_response_stream calls in flight
  appended,        \* observer of SpecHist: group -> the messages passed to
                   \*   add_message since its history was created or last cleared
  origin,          \* observer of SpecHist: group -> the system message synthesized
                   \*   when its history was created or last cleared, and whether
                   \*   max_history_length has kept its value since
  ret,             \* observer: the last operation, the state it started from and
                   \*   what it returned or yielded
  env,             \* os.environ after load_dotenv(): provider -> the value of
                   \*   its *_API_KEY variable ("" when unset)
  model_cache,     \* model_cache._cache: cache key -> [models, timestamp]
  clock            \* time.time(), in seconds

vars == <<settings, config_file, chat_histories, clients, orphans, calls,
          appended, origin, ret, env, model_cache, clock>>

histObs == <<appended, origin>>
callVars == <<clients, orphans, calls>>
fetchVars == <<model_cache, clock>>

\* the documents a configuration file holds in this model
ConfigDocs ==
  {[max_history_length |-> l, system_prompt |-> p] : l \in Lengths, p \in Prompts}

\* the coroutines of the embedding application that call the manager
CallIds == {"c1"}

\* a call slot with no call in flight
\* (session: the state of the session the call opened last; leaked: a session
\* it opened was replaced while open; detached: close_all dropped the client
\* it is using; configs, results, created: test_all_connections' remaining
\* pairs, its results so far, and the providers it constructed a client for)
Idle ==
  [pc |-> "idle", kind |-> "", status |-> "", group |-> "", message |-> <<>>,
   provider |-> "", request |-> <<>>, full_response |-> <<>>, yielded |-> <<>>,
   cb |-> <<>>, own |-> <<>>, invoked |-> FALSE,
   session |-> "none", leaked |-> FALSE, detached |-> FALSE,
   configs |-> <<>>, results |-> <<>>, created |-> {}]

\* what the environment hands to a resumed call: a completion's choices, a
\* fault, or nothing
NoInput == [choices |-> <<>>, fault |-> None]

NoRet ==
  [op |-> "", group |-> "", fresh |-> FALSE, prompt |-> <<>>, pre |-> <<>>,
   pre_clients |-> <<>>, result |-> Returned(<<>>), call |-> Idle,
   resumed |-> FALSE, input |-> NoInput]

\* the observer's record of an operation of a call
Event(op, call, result) ==
  [op |-> op, group |-> call.group, fresh |-> call.group \notin DOMAIN chat_histories,
   prompt |-> settings.system_prompt, pre |-> chat_histories,
   pre_clients |-> clients, result |-> result, call |-> call,
   resumed |-> FALSE, input |-> NoInput]

\* the same for a step that resumes a suspended call with an input
Resumed(op, call, result, input) ==
  [Event(op, call, result) EXCEPT !.resumed = TRUE, !.input = input]

\* the observer's record of a call of a setter of the configuration store:
\* its name, its arguments, whether the write of save_config succeeded, the
\* value it returned ("None", "True" or "False"), and whether the file held
\* the serialization of the Settings when it was called
SetterRet(name, args, write_ok, returned) ==
  [x \in DOMAIN NoRet \cup {"args", "write_ok", "returned", "pre_synced"} |->
     CASE x = "op" -> name
       [] x = "args" -> args
       [] x = "write_ok" -> write_ok
       [] x = "returned" -> returned
       [] x = "pre_synced" -> config_file = Some(serialize_settings(settings))
       [] OTHER -> NoRet[x]]

\* observer bookkeeping for a group whose history was just created or cleared
Origin ==
  [system |-> ChatMessage("system", settings.system_prompt), Lconst |-> TRUE]

Extend(f, g, v) == [x \in DOMAIN f \cup {g} |-> IF x = g THEN v ELSE f[x]]

\* the calls after __aenter__ replaced the session of the cached client of
\* provider: the call that had opened it is left with an open session nobody
\* refers to
Replaced(cs, cls, provider) ==
  IF provider \in DOMAIN cls /\ cls[provider].session = "open"
       /\ cls[provider].opener \in DOMAIN cs
    THEN [cs EXCEPT ![cls[provider].opener].leaked = TRUE,
                    ![cls[provider].opener].session = "none"]
    ELSE cs

\* the calls after call left "async with client": the session the client held
\* is closed, whoever opened it
Closed(cs, cls, call) ==
  IF ~call.detached /\ cls[call.provider].session = "open"
       /\ cls[call.provider].opener \in DOMAIN cs
    THEN [cs EXCEPT ![cls[call.provider].opener].session = "closed"]
    ELSE cs

RECURSIVE SumLen(_, _)
SumLen(f, S) ==
  IF S = {} THEN 0
  ELSE LET x == CHOOSE y \in S : TRUE IN Len(f[x]) + SumLen(f, S \ {x})

TotalAppended == SumLen(appended, DOMAIN appended)

\* AIConfigManager.__init__ with an existing configuration file holding doc
\* (AISettings(), _load_env() with no variable set, load_config()), then
\* ModernAIManager.__init__ without a legacy config_manager
Init ==
  /\ \E doc \in ConfigDocs :
       /\ settings = deserialize_settings(AISettings, doc).settings
       /\ config_file = Some(doc)
  /\ chat_histories = <<>>
  /\ clients = <<>>
  /\ orphans = 0
  /\ calls = [c \in CallIds |-> Idle]
  /\ appended = <<>>
  /\ origin = <<>>
  /\ ret = NoRet
  /\ env = [p \in AIProvider |-> ""]
  /\ model_cache = <<>>
  /\ clock = 0

(* ------------------------ operations on histories --------------------- *)

GetChatHistory(g) ==
  /\ chat_histories' = get_chat_history(chat_histories, g, settings)
  /\ ret' = [Event("get_chat_history", [Idle EXCEPT !.group = g],
                   Returned(chat_histories'[g]))
               EXCEPT !.call = Idle]
  /\ IF g \in DOMAIN chat_histories
       THEN UNCHANGED <<appended, origin>>
       ELSE /\ appended' = Extend(appended, g, <<>>)
            /\ origin' = Extend(origin, g, Origin)
  /\ UNCHANGED <<settings, config_file, callVars, env, fetchVars>>

AddMessage(g, role, content) ==
  /\ TotalAppended < MaxAppends
  /\ chat_histories' = add_message(chat_histories, g, role, content, settings)
  /\ appended' = Extend(appended, g,
                   Append(IF g \in DOMAIN appended THEN appended[g] ELSE <<>>,
                          ChatMessage(role, content)))
  /\ origin' = IF g \in DOMAIN origin THEN origin ELSE Extend(origin, g, Origin)
  /\ ret' = NoRet
  /\ UNCHANGED <<settings, config_file, callVars, env, fetchVars>>

ClearChatHistory(g) ==
  /\ chat_histories' = clear_chat_history(chat_histories, g, settings)
  /\ IF g \in DOMAIN chat_histories
       THEN /\ appended' = Extend(appended, g, <<>>)
            /\ origin' = Extend(origin, g, Origin)
       ELSE UNCHANGED <<appended, origin>>
  /\ ret' = NoRet
  /\ UNCHANGED <<settings, config_file, callVars, env, fetchVars>>

ClearAllHistories ==
  /\ chat_histories' = clear_all_histories
  /\ appended' = <<>>
  /\ origin' = <<>>
  /\ ret' = NoRet
  /\ UNCHANGED <<settings, config_file, callVars, env, fetchVars>>

\* import_config(file_path) on a readable file holding doc: _deserialize_settings,
\* then save_config
ImportConfig(doc, write_ok) ==
  /\ LET r == deserialize_settings(settings, doc)
     IN /\ settings' = r.settings
        /\ config_file' = IF r.ok THEN save_config(config_file, r.settings, write_ok)
                                  ELSE config_file
        /\ ret' = SetterRet("import_config", <<doc>>, write_ok,
                            IF r.ok THEN "True" ELSE "False")
  /\ origin' = [g \in DOMAIN origin |->
                  [origin[g] EXCEPT !.Lconst =
                     @ /\ settings'.max_history_length = settings.max_history_length]]
  /\ UNCHANGED <<chat_histories, appended, callVars, env, fetchVars>>

NextHist ==
  \/ \E g \in Groups : GetChatHistory(g)
  \/ \E g \in Groups, role \in Roles, content \in Contents : AddMessage(g, role, content)
  \/ \E g \in Groups : ClearChatHistory(g)
  \/ ClearAllHistories
  \/ \E doc \in ConfigDocs : ImportConfig(doc, TRUE)

SpecHist == Init /\ [][NextHist]_vars

(* ------------------------ configuration setters ----------------------- *)

\* the credentials and provider names the application passes
ApiKeys == {"", "k1"}
SetProviders == {"deepseek"}

\* set_api_key(provider, api_key): in place, then save_config
SetApiKey(provider, api_key, write_ok) ==
  /\ IF provider \in DOMAIN settings.providers
       THEN /\ settings' = [settings EXCEPT !.providers[provider].api_key = api_key]
            /\ config_file' = save_config(config_file, settings', write_ok)
       ELSE UNCHANGED <<settings, config_file>>
  /\ ret' = SetterRet("set_api_key", <<provider, api_key>>, write_ok, "None")
  /\ UNCHANGED <<chat_histories, callVars, histObs, env, fetchVars>>

\* set_provider_config(provider, config), then save_config
SetProviderConfig(provider, config, write_ok) ==
  /\ settings' = [settings EXCEPT !.providers = Extend(@, provider, config)]
  /\ config_file' = save_config(config_file, settings', write_ok)
  /\ ret' = SetterRet("set_provider_config", <<provider, config>>, write_ok, "None")
  /\ UNCHANGED <<chat_histories, callVars, histObs, env, fetchVars>>

(* ------------------------ get_ai_response ----------------------------- *)

\* the user messages, the provider arguments ("" is None) and the faults of
\* the vendor library the calls meet in this model
UserMessages == Contents
ProviderArgs == {"", "deepseek", "demo"}
Faults == {<<"timeout">>}

\* the message contents a completion carries: plain, padded with whitespace,
\* whitespace only, empty
ReplyContents == {<<"x">>, <<" ", "y", " ">>, <<" ">>, <<>>}
\* the lists of choices a completion carries: none, or one choice
ReplyChoices == {<<>>} \cup {<<t>> : t \in ReplyContents}

\* the texts of the deltas of a streamed completion; <<>> is a delta without text
DeltaTexts == {<<"x">>, <<"y">>, <<>>}

\* what client construction and session opening do: succeed, or raise
StartOutcomes == {"ok", "construct_raises", "session_raises"}

\* fragments one streaming call yields before the model stops feeding it deltas
MaxFragments == 2
\* a call starts only on a history shorter than this
MaxHistory == 4
\* sessions left open and unreferenced
MaxOrphans == 1

HistoryRoom(g) ==
  IF g \in DOMAIN chat_histories THEN Len(chat_histories[g]) < MaxHistory ELSE TRUE

\* lines 95-111 / 143-161, from the user turn to the suspension at the network
\* call: add_message, get_chat_history, the request, get_client, __aenter__,
\* and the client converting request.messages before its first await.
\* Yields the new histories, clients and orphans, and either the running call
\* or the detail of the exception raised on the way.
begin_call(c, kind, message, g, provider, outcome) ==
  LET config == settings.providers[provider]
      h1 == add_message(chat_histories, g, "user", message, settings)
      history == get_chat_history(h1, g, settings)[g]
      request == ChatCompletionRequest(config, history, kind = "stream")
      cl1 == get_client(clients, provider, config)
      base == [Idle EXCEPT !.kind = kind, !.group = g, !.message = message,
                 !.provider = provider, !.own = <<ChatMessage("user", message)>>]
  IN CASE outcome = "construct_raises" ->
            [histories |-> h1, clients |-> clients, orphans |-> orphans,
             raised |-> TRUE, call |-> [base EXCEPT !.status = "failed"]]
       [] outcome = "session_raises" ->
            [histories |-> h1, clients |-> cl1, orphans |-> orphans,
             raised |-> TRUE,
             call |-> [base EXCEPT !.status = "failed", !.request = request.messages]]
       [] OTHER ->
            [histories |-> h1,
             clients |-> [cl1 EXCEPT ![provider] = aenter_by(@, c)],
             orphans |-> orphans + aenter_orphans(cl1[provider]),
             raised |-> FALSE,
             call |-> [base EXCEPT !.status = "started", !.request = request.messages,
                         !.invoked = TRUE, !.session = "open",
                         !.pc = IF kind = "stream" THEN "streaming" ELSE "awaiting"]]

\* whether the start outcome can happen: a cached client is not constructed again
StartPossible(provider, outcome) ==
  /\ outcome = "construct_raises" => provider \notin DOMAIN clients
  /\ outcome = "ok" /\ provider \in DOMAIN clients /\ clients[provider].session = "open"
       => orphans < MaxOrphans

\* get_ai_response, up to its first suspension (or to its return)
StartResponse(c, message, g, parg, outcome) ==
  /\ calls[c].pc = "idle"
  /\ HistoryRoom(g)
  /\ LET provider == resolve_provider(settings, parg)
     IN IF ~provider_usable(settings, provider)
          THEN /\ outcome = "ok"
               /\ ret' = Event("get_ai_response",
                           [Idle EXCEPT !.kind = "response", !.group = g,
                              !.message = message, !.provider = provider,
                              !.status = "notconf"],
                           Returned(NotConfiguredText(provider)))
               /\ UNCHANGED <<chat_histories, callVars>>
          ELSE /\ StartPossible(provider, outcome)
               /\ LET b == begin_call(c, "response", message, g, provider, outcome)
                  IN /\ chat_histories' = b.histories
                     /\ clients' = b.clients
                     /\ orphans' = b.orphans
                     /\ IF b.raised
                          THEN /\ calls' = calls
                               /\ ret' = Event("get_ai_response", b.call,
                                               response_except(CHOOSE f \in Faults : TRUE))
                          ELSE /\ calls' = [Replaced(calls, clients, provider)
                                              EXCEPT ![c] = b.call]
                               /\ ret' = Event("invoke", b.call, Returned(<<>>))
  /\ UNCHANGED <<settings, config_file, histObs, env, fetchVars>>

\* get_ai_response resumed by the client's chat_completion: a completion with
\* the given choices, or (fault # None) the client's exception
Respond(c, choices, fault) ==
  /\ calls[c].pc = "awaiting"
  /\ LET cs == Closed(calls, clients, calls[c])
         call == cs[c]
         rr == response_reply(choices)
         input == [choices |-> choices, fault |-> fault]
     IN /\ clients' = release(clients, call)
        /\ calls' = [cs EXCEPT ![c] = Idle]
        /\ IF fault # None
             THEN /\ choices = <<>>
                  /\ UNCHANGED chat_histories
                  /\ ret' = Resumed("get_ai_response", [call EXCEPT !.status = "failed"],
                                    response_except(ChatFaultText(fault[1])), input)
             ELSE IF rr.append
               THEN /\ chat_histories' = add_message(chat_histories, call.group,
                                                     "assistant", rr.text, settings)
                    /\ ret' = Resumed("get_ai_response",
                                [call EXCEPT !.status = "completed",
                                   !.own = Append(@, ChatMessage("assistant", rr.text))],
                                Returned(rr.text), input)
               ELSE /\ UNCHANGED chat_histories
                    /\ ret' = Resumed("get_ai_response", [call EXCEPT !.status = "empty"],
                                      Returned(rr.text), input)
  /\ UNCHANGED <<settings, config_file, orphans, histObs, env, fetchVars>>

(* ------------------------ get_ai_response_stream ---------------------- *)

\* an except clause of the generator that raises to the consumer
stream_reraise(detail) == Raised(detail)

\* lines 169-171: get_ai_response_stream's except clause yields the error text
stream_except(detail) == Returned(ErrorText(detail))

\* a generator that records nothing when the client's stream ended
stream_finish_unrecorded(histories, call, s) ==
  [histories |-> histories, own |-> call.own]

\* lines 165-167: the assistant turn recorded when the client's stream ended
stream_finish(histories, call, s) ==
  IF call.full_response # <<>>
    THEN [histories |-> add_message(histories, call.group, "assistant",
                                    call.full_response, s),
          own |-> Append(call.own, ChatMessage("assistant", call.full_response))]
    ELSE [histories |-> histories, own |-> call.own]

\* a generator that records what it accumulated when it is closed
stream_close_recording(histories, call, s) == stream_finish(histories, call, s)

\* what the generator does to the histories when it is closed at a yield
\* (GeneratorExit is no Exception: only __aexit__ runs)
stream_close(histories, call, s) == [histories |-> histories, own |-> call.own]

\* the consumer's first __anext__: the generator runs to its first suspension,
\* which is the yield of the not-configured text, the yield of an error text,
\* or the wait for the first delta
StartStream(c, message, g, parg, outcome) ==
  /\ calls[c].pc = "idle"
  /\ HistoryRoom(g)
  /\ LET provider == resolve_provider(settings, parg)
     IN IF ~provider_usable(settings, provider)
          THEN /\ outcome = "ok"
               /\ LET text == NotConfiguredText(provider)
                      call == [Idle EXCEPT !.kind = "stream", !.group = g,
                                 !.message = message, !.provider = provider,
                                 !.status = "notconf", !.pc = "final_yield",
                                 !.yielded = <<text>>]
                  IN /\ calls' = [calls EXCEPT ![c] = call]
                     /\ ret' = Event("fragment", call, Returned(text))
               /\ UNCHANGED <<chat_histories, clients, orphans>>
          ELSE /\ StartPossible(provider, outcome)
               /\ LET b == begin_call(c, "stream", message, g, provider, outcome)
                      r == stream_except(CHOOSE f \in Faults : TRUE)
                      failed == [b.call EXCEPT !.pc = IF r.raised THEN "idle" ELSE "final_yield",
                                   !.yielded = IF r.raised THEN <<>> ELSE <<r.value>>]
                  IN /\ chat_histories' = b.histories
                     /\ clients' = b.clients
                     /\ orphans' = b.orphans
                     /\ IF b.raised
                          THEN /\ calls' = [calls EXCEPT ![c] =
                                              IF r.raised THEN Idle ELSE failed]
                               /\ ret' = Event("fragment", failed, r)
                          ELSE /\ calls' = [Replaced(calls, clients, provider)
                                              EXCEPT ![c] = b.call]
                               /\ ret' = Event("invoke", b.call, Returned(<<>>))
  /\ UNCHANGED <<settings, config_file, histObs, env, fetchVars>>

\* a delta arrives from the vendor stream (ai_client.py:149-153 and
\* ai_manager.py:161-163): with text, the callback is invoked, the text is
\* accumulated and yielded to the consumer; without text, nothing happens
Delta(c, text) ==
  /\ calls[c].pc = "streaming"
  /\ Len(calls[c].yielded) < MaxFragments
  /\ IF text # <<>>
       THEN LET call == [calls[c] EXCEPT !.cb = Append(@, text),
                           !.full_response = @ \o text,
                           !.yielded = Append(@, text),
                           !.pc = "chunk_yield"]
            IN /\ calls' = [calls EXCEPT ![c] = call]
               /\ ret' = Resumed("fragment", call, Returned(text), NoInput)
       ELSE /\ calls' = calls
            /\ ret' = NoRet
  /\ UNCHANGED <<settings, config_file, chat_histories, clients, orphans, histObs, env, fetchVars>>

\* the vendor stream ends: __aexit__, then lines 165-167, then the generator
\* finishes and the consumer's __anext__ raises StopAsyncIteration
StreamEnd(c) ==
  /\ calls[c].pc = "streaming"
  /\ LET cs == Closed(calls, clients, calls[c])
         call == cs[c]
         f == stream_finish(chat_histories, call, settings)
     IN /\ clients' = release(clients, call)
        /\ calls' = [cs EXCEPT ![c] = Idle]
        /\ chat_histories' = f.histories
        /\ ret' = Resumed("stream_end",
                          [call EXCEPT !.status = "completed", !.own = f.own, !.pc = "idle"],
                          Returned(<<>>), NoInput)
  /\ UNCHANGED <<settings, config_file, orphans, histObs, env, fetchVars>>

\* the vendor stream raises (ai_client.py:155-156): __aexit__, then the except
\* clause yields the error text
StreamFault(c, fault) ==
  /\ calls[c].pc = "streaming"
  /\ LET r == stream_except(StreamFaultText(fault))
         cs == Closed(calls, clients, calls[c])
         call == [cs[c] EXCEPT !.status = "failed",
                    !.pc = IF r.raised THEN "idle" ELSE "final_yield",
                    !.yielded = IF r.raised THEN @ ELSE Append(@, r.value)]
     IN /\ clients' = release(clients, call)
        /\ calls' = [cs EXCEPT ![c] = IF r.raised THEN Idle ELSE call]
        /\ ret' = Resumed("fragment", call, r, [NoInput EXCEPT !.fault = Some(fault)])
  /\ UNCHANGED <<settings, config_file, chat_histories, orphans, histObs, env, fetchVars>>

\* the consumer asks for the next fragment: after a chunk the generator waits
\* for the next delta; after the not-configured or the error text it finishes
ConsumerNext(c) ==
  /\ calls[c].pc \in {"chunk_yield", "final_yield"}
  /\ IF calls[c].pc = "chunk_yield"
       THEN /\ calls' = [calls EXCEPT ![c].pc = "streaming"]
            /\ ret' = NoRet
       ELSE /\ calls' = [calls EXCEPT ![c] = Idle]
            /\ ret' = Resumed("stream_end", [calls[c] EXCEPT !.pc = "idle"],
                              Returned(<<>>), NoInput)
  /\ UNCHANGED <<settings, config_file, chat_histories, clients, orphans, histObs, env, fetchVars>>

\* the consumer stops consuming and the generator is closed at its yield; at
\* a chunk's yield that is inside "async with client", so __aexit__ runs
Abandon(c) ==
  /\ calls[c].pc \in {"chunk_yield", "final_yield"}
  /\ LET cs == IF calls[c].pc = "chunk_yield"
                 THEN Closed(calls, clients, calls[c]) ELSE calls
         call == cs[c]
         f == stream_close(chat_histories, call, settings)
     IN /\ clients' = IF call.pc = "chunk_yield"
                        THEN release(clients, call)
                        ELSE clients
        /\ calls' = [cs EXCEPT ![c] = Idle]
        /\ chat_histories' = f.histories
        /\ ret' = Resumed("stream_abandoned",
                          [call EXCEPT !.own = f.own, !.status =
                             IF @ = "started" THEN "abandoned" ELSE @],
                          Returned(<<>>), NoInput)
  /\ UNCHANGED <<settings, config_file, orphans, histObs, env, fetchVars>>

(* ------------------------ the manager with calls in flight ------------ *)

Next ==
  \/ \E c \in CallIds, m \in UserMessages, g \in Groups, p \in ProviderArgs,
        o \in StartOutcomes : StartResponse(c, m, g, p, o)
  \/ \E c \in CallIds, ch \in ReplyChoices : Respond(c, ch, None)
  \/ \E c \in CallIds, f \in Faults : Respond(c, <<>>, Some(f))
  \/ \E c \in CallIds, m \in UserMessages, g \in Groups, p \in ProviderArgs,
        o \in StartOutcomes : StartStream(c, m, g, p, o)
  \/ \E c \in CallIds, t \in DeltaTexts : Delta(c, t)
  \/ \E c \in CallIds : StreamEnd(c)
  \/ \E c \in CallIds, f \in Faults : StreamFault(c, f)
  \/ \E c \in CallIds : ConsumerNext(c)
  \/ \E c \in CallIds : Abandon(c)
  \/ \E p \in SetProviders, k \in ApiKeys : SetApiKey(p, k, TRUE)
  \/ \E p \in SetProviders, e \in BOOLEAN :
       SetProviderConfig(p, [AISettings.providers[p] EXCEPT !.enabled = e,
                                                            !.api_key = "k1"], TRUE)

Spec == Init /\ [][Next]_vars

(* ------------------------ several groups ------------------------------ *)

TwoGroups == {"g1", "g2"}

\* with two groups, an operation starts only on a history shorter than this
MaxGroupHistory == 2

GroupRoom(g) ==
  IF g \in DOMAIN chat_histories
    THEN Len(chat_histories[g]) < MaxGroupHistory
    ELSE TRUE

\* the first run of the application with DEEPSEEK_API_KEY set and no
\* configuration file: the defaults, with the credential of the environment,
\* are saved
InitFirstRun ==
  /\ env = [p \in AIProvider |-> IF p = "deepseek" THEN "k1" ELSE ""]
  /\ LET r == construct(env, None, "ok", TRUE)
     IN /\ settings = r.settings
        /\ config_file = r.file
  /\ chat_histories = <<>>
  /\ clients = <<>>
  /\ orphans = 0
  /\ calls = [c \in CallIds |-> Idle]
  /\ appended = <<>>
  /\ origin = <<>>
  /\ ret = NoRet
  /\ model_cache = <<>>
  /\ clock = 0

\* the operations addressed to a group, on two groups and one caller
NextGroups ==
  \/ \E g \in TwoGroups : GetChatHistory(g)
  \/ \E g \in TwoGroups : GroupRoom(g) /\ AddMessage(g, "user", <<"a">>)
  \/ \E g \in TwoGroups : ClearChatHistory(g)
  \/ \E g \in TwoGroups : GroupRoom(g) /\ StartResponse("c1", <<"b">>, g, "", "ok")
  \/ Respond("c1", << <<"x">> >>, None)
  \/ \E g \in TwoGroups : GroupRoom(g) /\ StartStream("c1", <<"b">>, g, "", "ok")
  \/ Delta("c1", <<"x">>)
  \/ StreamEnd("c1")
  \/ ConsumerNext("c1")

SpecGroups == InitFirstRun /\ [][NextGroups]_vars

(* ------------------------ two callers on one group -------------------- *)

\* two coroutines of the embedding application, and the contents of the
\* completions they receive
RaceCallIds == {"c1", "c2"}
RaceReplies == {<<"x">>, <<"y">>}

\* the first run with DEEPSEEK_API_KEY set, with two callers
InitRace ==
  /\ env = [p \in AIProvider |-> IF p = "deepseek" THEN "k1" ELSE ""]
  /\ LET r == construct(env, None, "ok", TRUE)
     IN /\ settings = r.settings
        /\ config_file = r.file
  /\ chat_histories = <<>>
  /\ clients = <<>>
  /\ orphans = 0
  /\ calls = [c \in RaceCallIds |-> Idle]
  /\ appended = <<>>
  /\ origin = <<>>
  /\ ret = NoRet
  /\ model_cache = <<>>
  /\ clock = 0

NextRace ==
  \/ \E c \in RaceCallIds, m \in UserMessages : StartResponse(c, m, "g1", "", "ok")
  \/ \E c \in RaceCallIds, t \in RaceReplies : Respond(c, <<t>>, None)
  \/ \E c \in RaceCallIds, f \in Faults : Respond(c, <<>>, Some(f))

SpecRace == InitRace /\ [][NextRace]_vars

(* ------------------------ the model list and its cache ---------------- *)

\* credentials: none, and two of nine characters that share their first eight
FetchKeys ==
  {<<>>,
   <<"s", "k", "-", "1", "2", "3", "4", "5", "a">>,
   <<"s", "k", "-", "1", "2", "3", "4", "5", "b">>}

\* endpoints: none, a known vendor's in mixed case, and an unknown host's
FetchUrls ==
  {<<>>, <<"https://API.", "DeepSeek", ".com">>, <<"https://my.host", "/v1">>}

\* the entries of a listing's "data": objects with a string id, with a number
\* for id, without id, and an entry that is no object
Entry(id) == [dict |-> TRUE, id |-> Some(id)]
EntryWithoutId == [dict |-> TRUE, id |-> None]
EntryNoObject == [dict |-> FALSE, id |-> None]

\* what the network does with GET {endpoint}/models
NetOutcomes ==
  {[kind |-> "ok", data |-> d] :
     d \in {<<Entry(StrId("beta")), EntryNoObject, Entry(StrId("alpha")), EntryWithoutId>>,
            <<Entry(StrId("alpha")), Entry(IntId("7"))>>,
            <<Entry(IntId("7"))>>,
            <<EntryWithoutId>>,
            <<>>}}
  \cup {[kind |-> k, data |-> <<>>] :
          k \in {"no_data", "data_not_list", "body_is_list", "body_is_number",
                 "bad_json", "status_500", "timeout", "error"}}

SyncOutcomes == {"completes", "future_timeout"}

\* the endpoints and the answers of the network the fetch threads meet
ResolveUrls == {<<>>, <<"https://API.", "DeepSeek", ".com">>}
ResolveNets ==
  {n \in NetOutcomes :
     \/ n.kind \in {"status_500", "timeout"}
     \/ n.kind = "ok" /\ (n.data = <<>> \/ Len(n.data) = 4)}

\* the seconds that pass between two operations, and the end of the run
Ticks == {299, 300, 301}
MaxClock == 301

fetchFrame == <<settings, config_file, chat_histories, callVars, histObs, env>>

\* a ModelFetchThread runs to its end
Resolve(api_key, base_url, net, sync) ==
  /\ LET r == run(model_cache, api_key, base_url, net, sync, clock)
     IN /\ model_cache' = r.cache
        /\ ret' = [op |-> "resolve", api_key |-> api_key, base_url |-> base_url,
                   net |-> net, sync |-> sync, pre_cache |-> model_cache,
                   now |-> clock, signal |-> r.signal, models |-> r.models,
                   called |-> r.called]
  /\ UNCHANGED <<clock, fetchFrame>>

GetCachedModels(api_key, base_url) ==
  /\ ret' = [op |-> "get_cached_models", api_key |-> api_key, base_url |-> base_url,
             pre_cache |-> model_cache, now |-> clock,
             result |-> get_cached_models(model_cache, api_key, base_url, clock)]
  /\ UNCHANGED <<model_cache, clock, fetchFrame>>

GetModelsWithFallback(api_key, base_url, net, sync) ==
  /\ ret' = [op |-> "get_models_with_fallback", api_key |-> api_key,
             base_url |-> base_url, net |-> net, sync |-> sync,
             result |-> get_models_with_fallback(api_key, base_url, net, sync)]
  /\ UNCHANGED <<model_cache, clock, fetchFrame>>

ClearCache ==
  /\ model_cache' = clear_cache
  /\ ret' = [op |-> "clear_cache"]
  /\ UNCHANGED <<clock, fetchFrame>>

Tick(d) ==
  /\ clock + d <= MaxClock
  /\ clock' = clock + d
  /\ ret' = NoRet
  /\ UNCHANGED <<model_cache, fetchFrame>>

NextFetch ==
  \/ \E k \in FetchKeys, u \in ResolveUrls, n \in ResolveNets, y \in SyncOutcomes :
       Resolve(k, u, n, y)
  \/ \E k \in FetchKeys, u \in ResolveUrls : GetCachedModels(k, u)
  \/ ClearCache
  \/ \E d \in Ticks : Tick(d)

SpecFetch == InitFirstRun /\ [][NextFetch]_vars

\* get_models_with_fallback on every credential, endpoint and answer
NextFallback ==
  \E k \in FetchKeys, u \in FetchUrls, n \in NetOutcomes, y \in SyncOutcomes :
    GetModelsWithFallback(k, u, n, y)

SpecFallback == InitFirstRun /\ [][NextFallback]_vars

(* ------------------------ the configuration store --------------------- *)

\* the environments the application starts in
Envs ==
  {[p \in AIProvider |->
      IF p = "deepseek" THEN d ELSE IF p = "gemini" THEN g ELSE ""] :
     d \in {"", "k1"}, g \in {"", "k3"}}

\* a document as save_config wrote it in an earlier run
DocSaved ==
  serialize_settings(
    [AISettings EXCEPT !.max_history_length = 2,
                       !.providers["deepseek"].api_key = "k2",
                       !.providers["deepseek"].model = "deepseek-coder",
                       !.providers["gemini"].enabled = TRUE])

\* hand-written documents: a provider entry without api_key, no providers at
\* all, an unknown default_provider, and a provider entry that is no object
DocWithoutKey ==
  [providers |-> <<[name |-> "deepseek", obj |-> TRUE,
                    fields |-> [enabled |-> TRUE, model |-> "deepseek-coder"]]>>]
DocWithoutProviders == [system_prompt |-> <<"T">>]
DocUnknownDefault == [enabled |-> FALSE, default_provider |-> "bogus"]
DocEntryNoObject ==
  [system_prompt |-> <<"T">>,
   providers |-> <<[name |-> "deepseek", obj |-> TRUE,
                    fields |-> [enabled |-> TRUE, api_key |-> "k2"]],
                   [name |-> "gemini", obj |-> FALSE, fields |-> <<>>]>>]

StoreDocs ==
  {DocSaved, DocWithoutKey, DocWithoutProviders, DocUnknownDefault, DocEntryNoObject}

\* AIConfigManager() in environment e, with the configuration file absent or
\* holding a document that open() and json.load() treat as read tells
InitStore ==
  /\ \E e \in Envs, f \in {None} \cup {Some(d) : d \in StoreDocs}, read \in ReadOutcomes :
       /\ f = None => read = "ok"
       /\ env = e
       /\ LET r == construct(e, f, read, TRUE)
          IN /\ settings = r.settings
             /\ config_file = r.file
             /\ ret = [op |-> "construct", file |-> f, read |-> read, ok |-> r.ok]
  /\ chat_histories = <<>>
  /\ clients = <<>>
  /\ orphans = 0
  /\ calls = [c \in CallIds |-> Idle]
  /\ appended = <<>>
  /\ origin = <<>>
  /\ model_cache = <<>>
  /\ clock = 0

storeFrame == <<chat_histories, callVars, histObs, fetchVars>>

\* load_config() on the file as it is
LoadConfig(read) ==
  /\ config_file = None => read = "ok"
  /\ LET r == load_config(settings, config_file, read, TRUE)
     IN /\ settings' = r.settings
        /\ config_file' = r.file
        /\ ret' = [op |-> "load_config", file |-> config_file, read |-> read,
                   ok |-> r.ok, pre_settings |-> settings]
  /\ UNCHANGED <<env, storeFrame>>

\* the file is replaced from outside the application
ReplaceFile(doc) ==
  /\ config_file # Some(doc)
  /\ config_file' = Some(doc)
  /\ ret' = NoRet
  /\ UNCHANGED <<settings, env, storeFrame>>

\* reset_to_defaults(): AISettings(), _load_env(), save_config()
ResetToDefaults(write_ok) ==
  /\ settings' = load_env(AISettings, env)
  /\ config_file' = save_config(config_file, settings', write_ok)
  /\ ret' = SetterRet("reset_to_defaults", <<>>, write_ok, "None")
  /\ UNCHANGED <<env, storeFrame>>

NextStore ==
  \/ \E read \in ReadOutcomes : LoadConfig(read)
  \/ \E doc \in StoreDocs : ReplaceFile(doc)
  \/ \E p \in SetProviders, k \in ApiKeys : SetApiKey(p, k, TRUE)
  \/ ResetToDefaults(TRUE)

SpecStore == InitStore /\ [][NextStore]_vars

(* ------------------------ the store written and reopened -------------- *)

\* configs the settings dialog passes to set_provider_config, for a default
\* provider and for one the defaults do not have; proxy absent or present
NewProviders == {"deepseek", "demo"}
NewConfigs ==
  {[AIProviderConfig(TRUE, "https://demo.example/v1", "demo-chat")
      EXCEPT !.api_key = "k1", !.proxy = px] :
     px \in {None, Some([http |-> "http://proxy:8080"])}}

\* the documents import_config is given: one that save_config wrote, and one
\* that makes _deserialize_settings raise
ImportDocs == {DocSaved, DocUnknownDefault}

\* a new process constructs AIConfigManager on the file the store left
Reopen ==
  /\ config_file # None
  /\ LET r == construct(env, config_file, "ok", TRUE)
     IN /\ settings' = r.settings
        /\ config_file' = r.file
        /\ ret' = [op |-> "reopen", ok |-> r.ok, pre_settings |-> settings,
                   file |-> config_file]
  /\ UNCHANGED <<env, storeFrame>>

NextReopen ==
  \/ \E p \in NewProviders, c \in NewConfigs, w \in BOOLEAN : SetProviderConfig(p, c, w)
  \/ \E p \in NewProviders, w \in BOOLEAN : SetApiKey(p, "", w)
  \/ \E w \in BOOLEAN : ResetToDefaults(w)
  \/ \E doc \in ImportDocs, w \in BOOLEAN : ImportConfig(doc, w)
  \/ Reopen

\* the first run: no file, DEEPSEEK_API_KEY set
SpecReopen == InitFirstRun /\ [][NextReopen]_vars

(* ------------------------ the client manager -------------------------- *)

\* ConnectionTestResult: success, error, and whether test_connection produced
\* it (response_time is set on that path only)
ConnectionTestResult(success, error, probed) ==
  [success |-> success, error |-> error, probed |-> probed]

\* ai_client.py:273-276 (an ASCII stand-in for the literal)
NotEnabledResult ==
  ConnectionTestResult(FALSE, Some(<<"not enabled or missing API key">>), FALSE)

\* test_connection (lines 75-90 and 175-193): the probe's fault becomes the
\* error of a failure result
test_connection(fault) ==
  IF fault = None THEN ConnectionTestResult(TRUE, None, TRUE)
                  ELSE ConnectionTestResult(FALSE, fault, TRUE)

\* a loop that gives a client to every enabled pair
probe_eligible_without_key(config) == config.enabled

\* line 268
probe_eligible(config) == config.enabled /\ config.api_key # ""

\* lines 267-276 for the pairs at the front of configs that get no client
RECURSIVE skip_ineligible(_, _)
skip_ineligible(configs, results) ==
  IF configs = <<>> \/ probe_eligible(Head(configs).config)
    THEN [configs |-> configs, results |-> results]
    ELSE skip_ineligible(Tail(configs),
                         Extend(results, Head(configs).provider, NotEnabledResult))

\* test_all_connections run by call t from the top of its loop to its next
\* suspension (inside test_connection), to its return, or to the exception
\* that client construction or __aenter__ raises: the cache, the call, the
\* provider whose client was entered
probe_continue(t, call, cls, outcome) ==
  LET s == skip_ineligible(call.configs, call.results)
      at == [call EXCEPT !.configs = s.configs, !.results = s.results,
                         !.detached = FALSE, !.provider = ""]
  IN IF s.configs = <<>>
       THEN [clients |-> cls, raised |-> FALSE, done |-> TRUE, entered |-> "",
             call |-> [at EXCEPT !.status = "completed", !.pc = "idle"]]
       ELSE
         LET pair == Head(s.configs)
             cl1 == get_client(cls, pair.provider, pair.config)
             made == IF pair.provider \in DOMAIN cls THEN {} ELSE {pair.provider}
         IN CASE outcome = "construct_raises" ->
                   [clients |-> cls, raised |-> TRUE, done |-> FALSE, entered |-> "",
                    call |-> [at EXCEPT !.status = "failed", !.pc = "idle"]]
              [] outcome = "session_raises" ->
                   [clients |-> cl1, raised |-> TRUE, done |-> FALSE, entered |-> "",
                    call |-> [at EXCEPT !.status = "failed", !.pc = "idle",
                                        !.created = @ \cup made]]
              [] OTHER ->
                   [clients |-> [cl1 EXCEPT ![pair.provider] = aenter_by(@, t)],
                    raised |-> FALSE, done |-> FALSE, entered |-> pair.provider,
                    call |-> [at EXCEPT !.pc = "probing", !.provider = pair.provider,
                                        !.configs = Tail(s.configs),
                                        !.session = "open",
                                        !.created = @ \cup made]]

\* a close_all that forgets the sessions
close_all_clear_only(cls) == [released |-> cls, clients |-> <<>>]

\* close_all (lines 279-284): every cached client's session is closed, then
\* the cache is cleared; released is what became of the clients it held
close_all(cls) ==
  [released |-> [p \in DOMAIN cls |-> aexit(cls[p])], clients |-> <<>>]

\* the observer's record of a step of test_all_connections: released is the
\* client the step left "async with" on, if it did
ProbeEvent(op, call, result, released) ==
  [op |-> op, call |-> call, result |-> result, released |-> released,
   pre_clients |-> clients]

\* the step of test_all_connections that starts from call (at the top of the
\* loop) on the cache cls and the calls cs
ProbeAdvance(t, call, cls, cs, outcome, released) ==
  LET a == probe_continue(t, call, cls, outcome)
      p == a.entered
  IN /\ a.done => outcome = "ok"
     /\ outcome = "construct_raises" => Head(a.call.configs).provider \notin DOMAIN cls
     /\ clients' = a.clients
     /\ IF p # ""
          THEN /\ p \in DOMAIN cls /\ cls[p].session = "open" => orphans < MaxOrphans
               /\ orphans' = orphans + (IF p \in DOMAIN cls
                                          THEN aenter_orphans(cls[p]) ELSE 0)
               /\ calls' = [Replaced(cs, cls, p) EXCEPT ![t] = a.call]
               /\ ret' = ProbeEvent("probe", a.call, Returned(<<>>), released)
          ELSE /\ orphans' = orphans
               /\ calls' = [cs EXCEPT ![t] = Idle]
               /\ ret' = ProbeEvent("test_all_connections", a.call,
                                    IF a.raised THEN Raised(CHOOSE f \in Faults : TRUE)
                                                ELSE Returned(a.call.results),
                                    released)
     /\ UNCHANGED <<settings, config_file, chat_histories, histObs, env, fetchVars>>

\* test_all_connections(configs), up to its first suspension or its return
TestAllConnections(t, configs, outcome) ==
  /\ calls[t].pc = "idle"
  /\ ProbeAdvance(t, [Idle EXCEPT !.kind = "test", !.status = "started",
                                  !.configs = configs, !.request = configs],
                  clients, calls, outcome, None)

\* test_connection returns (fault = None: the probe succeeded): __aexit__, the
\* result stored, and the loop goes on
ProbeReturns(t, fault, outcome) ==
  /\ calls[t].pc = "probing"
  /\ LET cs == Closed(calls, clients, calls[t])
         call == cs[t]
         cls == release(clients, call)
     IN ProbeAdvance(t,
                     [call EXCEPT !.results =
                        Extend(@, call.provider, test_connection(fault))],
                     cls, cs, outcome,
                     IF call.detached THEN None ELSE Some(cls[call.provider]))

\* close_all(): the calls that are inside "async with" keep their client,
\* which is no longer the cached one
CloseAll ==
  /\ LET r == close_all(clients)
     IN /\ clients' = r.clients
        /\ ret' = [op |-> "close_all", released |-> r.released, pre_clients |-> clients]
        /\ calls' = [c \in DOMAIN calls |->
                       IF calls[c].pc \in {"awaiting", "streaming", "chunk_yield", "probing"}
                         THEN [calls[c] EXCEPT
                                 !.detached = TRUE,
                                 !.session = IF @ = "open"
                                               THEN r.released[calls[c].provider].session
                                               ELSE @]
                         ELSE calls[c]]
  /\ UNCHANGED <<settings, config_file, chat_histories, orphans, histObs, env, fetchVars>>

\* the callers of this part: one get_ai_response caller, one
\* test_all_connections caller
ClientCallIds == {"c1", "t1"}

InitClients ==
  /\ env = [p \in AIProvider |-> IF p = "deepseek" THEN "k1" ELSE ""]
  /\ LET r == construct(env, None, "ok", TRUE)
     IN /\ settings = r.settings
        /\ config_file = r.file
  /\ chat_histories = <<>>
  /\ clients = <<>>
  /\ orphans = 0
  /\ calls = [c \in ClientCallIds |-> Idle]
  /\ appended = <<>>
  /\ origin = <<>>
  /\ ret = NoRet
  /\ model_cache = <<>>
  /\ clock = 0

\* the pairs handed to test_all_connections: the current configs of gemini and
\* deepseek
ProbeConfigs ==
  LET pair(p) == [provider |-> p, config |-> settings.providers[p]]
  IN {<<pair("gemini"), pair("deepseek")>>}

ProbeProviders == {"deepseek", "gemini"}

\* the config the settings dialog replaces a provider's config by
ChangedConfig ==
  [AIProviderConfig(TRUE, "https://demo.example/v1", "demo-chat")
     EXCEPT !.api_key = "k1", !.timeout = 60]

NextClients ==
  \/ StartResponse("c1", <<"a">>, "g1", "", "ok")
  \/ \E f \in Faults : Respond("c1", <<>>, Some(f))
  \/ \E cf \in ProbeConfigs, o \in StartOutcomes : TestAllConnections("t1", cf, o)
  \/ \E f \in {None} \cup {Some(x) : x \in Faults}, o \in StartOutcomes :
       ProbeReturns("t1", f, o)
  \/ CloseAll
  \/ SetApiKey("deepseek", "", TRUE)
  \/ \E p \in ProbeProviders : SetProviderConfig(p, ChangedConfig, TRUE)

SpecClients == InitClients /\ [][NextClients]_vars

(* ------------------------ the client variants -------------------------- *)

\* In this part a text is a sequence of characters; " " and "\n" are the
\* whitespace characters.
IsSpace(ch) == ch \in {" ", "\n"}

\* str.split() without arguments, scanning content with the word read so far:
\* runs of whitespace separate the words, and there are no empty words
RECURSIVE split(_, _)
split(content, word) ==
  IF content = <<>>
    THEN IF word = <<>> THEN <<>> ELSE <<word>>
  ELSE IF IsSpace(Head(content))
    THEN (IF word = <<>> THEN <<>> ELSE <<word>>) \o split(Tail(content), <<>>)
    ELSE split(Tail(content), Append(word, Head(content)))

\* sep.join(texts)
RECURSIVE join(_, _)
join(sep, texts) ==
  IF texts = <<>> THEN <<>>
  ELSE IF Len(texts) = 1 THEN texts[1]
  ELSE texts[1] \o sep \o join(sep, Tail(texts))

\* ai_client.py:96-99 and :136-139: the dicts the compatible variant sends
compatible_messages(messages) ==
  [i \in DOMAIN messages |->
     [role |-> messages[i].role, content |-> messages[i].content]]

\* a prompt made of the contents of all the messages
gemini_prompt_all_roles(messages) ==
  join(<<"\n">>, [i \in DOMAIN messages |-> messages[i].content])

\* ai_client.py:199-200: the prompt the Gemini variant sends
gemini_prompt(messages) ==
  LET users == SelectSeq(messages, LAMBDA msg : msg.role = "user")
      user_messages == [i \in DOMAIN users |-> users[i].content]
  IN join(<<"\n">>, user_messages)

\* a chunk of the vendor stream: its choices, each with the content of its
\* delta (None, or Some(text))
Chunk(contents) == [choices |-> [i \in DOMAIN contents |-> [content |-> contents[i]]]]

\* a test that takes every delta whose content is not None
chunk_has_content(chunk) ==
  chunk.choices # <<>> /\ chunk.choices[1].content # None

\* ai_client.py:150: "chunk.choices and chunk.choices[0].delta.content"; an
\* empty list, None and "" are false
chunk_has_text(chunk) ==
  /\ chunk.choices # <<>>
  /\ chunk.choices[1].content # None
  /\ chunk.choices[1].content[1] # <<>>

\* a fragment rule that puts a space after every word
gemini_chunk_spaced(words, i) == words[i] \o <<" ">>

\* ai_client.py:235: the fragment of the i-th word
gemini_chunk(words, i) ==
  words[i] \o (IF i < Len(words) THEN <<" ">> ELSE <<>>)

\* an exception: its class and str(e)
Exc(type, message) == [type |-> type, message |-> message]

\* an except clause that lets the vendor's exception through
vendor_error(variant, op, e) == e

\* ai_client.py:127, :156 and :220: the exception the except clause raises
\* for the vendor's exception e. The Gemini variant's stream has no except
\* clause of its own: what reaches it is what its chat_completion raised.
provider_error(variant, op, e) ==
  Exc("Exception",
      CASE variant = "gemini" -> GeminiFaultText(e.message)
        [] op = "chat_completion" -> ChatFaultText(e.message)
        [] OTHER -> StreamFaultText(e.message))

\* One call of a client's chat_completion or stream_chat_completion, as the
\* caller of the client sees it. sent is what the vendor call was given;
\* chunks are the chunks the vendor stream delivered; events are the
\* completion of the vendor call ("completed"), the invocations of on_chunk
\* ("callback") and the fragments handed to the consumer ("yield"), in order.
NoRun ==
  [pc |-> "idle", variant |-> "", op |-> "", messages |-> <<>>, sent |-> None,
   chunks |-> <<>>, words |-> <<>>, i |-> 0, events |-> <<>>]

Ev(kind, text) == [kind |-> kind, text |-> text]

\* the observer's record of a step of a client call: the call after the step,
\* what the step handed to the caller, and what the vendor handed to the step
RunRet(op, rn, result, input) ==
  [op |-> op, run |-> rn, result |-> result, input |-> input]

\* what the vendor handed to a step: nothing, a reply, a chunk, or a fault
VendorInput(kind, value) == [kind |-> kind, value |-> value]
NoVendorInput == VendorInput("none", <<>>)

RunIds == {"v1"}
Variants == {"compatible", "gemini"}

\* the longest request.messages, vendor stream and reply text of this part
MaxMessages == 2
MaxChunks == 3
MaxReply == 3

\* the messages of a request: the i-th message's content names its role and i
RequestContent(role, i) ==
  CASE role = "system" -> <<"s", IF i = 1 THEN "1" ELSE IF i = 2 THEN "2" ELSE "3+">>
    [] role = "user" -> <<"u", IF i = 1 THEN "1" ELSE IF i = 2 THEN "2" ELSE "3+">>
    [] OTHER -> <<"a", IF i = 1 THEN "1" ELSE IF i = 2 THEN "2" ELSE "3+">>

RequestMessages ==
  UNION {{[i \in 1..n |-> ChatMessage(rs[i], RequestContent(rs[i], i))] :
            rs \in [1..n -> Roles]} : n \in 0..MaxMessages}

\* the chunks of the vendor stream: without choices, with a delta without
\* content, with an empty content, and with text
VendorChunks ==
  {Chunk(<<>>), Chunk(<<None>>), Chunk(<<Some(<<>>)>>), Chunk(<<Some(<<"x">>)>>),
   Chunk(<<Some(<<"y", " ">>)>>)}

\* the texts of a Gemini reply
ReplyChars == {"x", "y", " ", "\n"}
ReplyTexts == UNION {[1..n -> ReplyChars] : n \in 0..MaxReply}

\* the exceptions of the vendor libraries
VendorFaults == {Exc("APITimeoutError", <<"timeout">>),
                 Exc("ResourceExhausted", <<"quota">>)}

runFrame == <<settings, config_file, chat_histories, clients, orphans,
              histObs, env, fetchVars>>

\* chat_completion(request), up to the vendor call
ChatCompletion(v, variant, messages) ==
  /\ calls[v].pc = "idle"
  /\ LET rn == [NoRun EXCEPT !.pc = "awaiting", !.variant = variant,
                   !.op = "chat_completion", !.messages = messages,
                   !.sent = Some(IF variant = "gemini"
                                   THEN gemini_prompt(messages)
                                   ELSE compatible_messages(messages))]
     IN /\ calls' = [calls EXCEPT ![v] = rn]
        /\ ret' = RunRet("vendor_call", rn, Returned(<<>>), NoVendorInput)
  /\ UNCHANGED runFrame

\* the vendor call of chat_completion returns: the contents of the choices
\* of a compatible completion (lines 109-125), or the text of a Gemini
\* response (lines 207-218)
ChatCompletionReturns(v, choices, text) ==
  /\ calls[v].pc = "awaiting"
  /\ calls[v].op = "chat_completion"
  /\ LET rn == calls[v]
         response == IF rn.variant = "gemini" THEN <<text>> ELSE choices
     IN /\ IF rn.variant = "gemini" THEN choices = <<>> ELSE text = <<>>
        /\ calls' = [calls EXCEPT ![v] = NoRun]
        /\ ret' = RunRet("chat_completion",
                         [rn EXCEPT !.pc = "idle", !.events = Append(@, Ev("completed", <<>>))],
                         Returned(response), VendorInput("reply", response))
  /\ UNCHANGED runFrame

\* the vendor call of chat_completion raises e
ChatCompletionFails(v, e) ==
  /\ calls[v].pc = "awaiting"
  /\ calls[v].op = "chat_completion"
  /\ LET rn == calls[v]
     IN /\ calls' = [calls EXCEPT ![v] = NoRun]
        /\ ret' = RunRet("chat_completion", [rn EXCEPT !.pc = "idle"],
                         Raised(provider_error(rn.variant, rn.op, e)), VendorInput("fault", e))
  /\ UNCHANGED runFrame

\* the consumer's first __anext__ on stream_chat_completion(request,
\* on_chunk): up to the vendor call, which for the Gemini variant is the one of
\* its own chat_completion (line 229)
StreamChatCompletion(v, variant, messages) ==
  /\ calls[v].pc = "idle"
  /\ LET rn == [NoRun EXCEPT !.pc = "awaiting", !.variant = variant,
                   !.op = "stream_chat_completion", !.messages = messages,
                   !.sent = Some(IF variant = "gemini"
                                   THEN gemini_prompt(messages)
                                   ELSE compatible_messages(messages))]
     IN /\ calls' = [calls EXCEPT ![v] = rn]
        /\ ret' = RunRet("vendor_call", rn, Returned(<<>>), NoVendorInput)
  /\ UNCHANGED runFrame

\* lines 141-149: create(stream=True) returns the vendor stream and the
\* generator waits for its first chunk
StreamOpened(v) ==
  /\ calls[v].pc = "awaiting"
  /\ calls[v].op = "stream_chat_completion"
  /\ calls[v].variant = "compatible"
  /\ LET rn == [calls[v] EXCEPT !.pc = "iterating",
                   !.events = Append(@, Ev("completed", <<>>))]
     IN /\ calls' = [calls EXCEPT ![v] = rn]
        /\ ret' = RunRet("stream_opened", rn, Returned(<<>>), NoVendorInput)
  /\ UNCHANGED runFrame

\* lines 149-153: the vendor stream delivers a chunk
StreamChunk(v, chunk) ==
  /\ calls[v].pc = "iterating"
  /\ Len(calls[v].chunks) < MaxChunks
  /\ LET content == chunk.choices[1].content[1]
         seen == [calls[v] EXCEPT !.chunks = Append(@, chunk)]
         rn == IF chunk_has_text(chunk)
                  THEN [seen EXCEPT !.pc = "at_yield",
                          !.events = @ \o <<Ev("callback", content), Ev("yield", content)>>]
                  ELSE seen
     IN /\ calls' = [calls EXCEPT ![v] = rn]
        /\ ret' = IF chunk_has_text(chunk)
                    THEN RunRet("fragment", rn, Returned(content), VendorInput("chunk", chunk))
                    ELSE RunRet("chunk_skipped", rn, Returned(<<>>), VendorInput("chunk", chunk))
  /\ UNCHANGED runFrame

\* the vendor stream ends: the generator finishes
StreamExhausted(v) ==
  /\ calls[v].pc = "iterating"
  /\ calls' = [calls EXCEPT ![v] = NoRun]
  /\ ret' = RunRet("stream_end", [calls[v] EXCEPT !.pc = "idle"], Returned(<<>>), NoVendorInput)
  /\ UNCHANGED runFrame

\* lines 155-156: create(stream=True) or the vendor stream raises e
StreamFails(v, e) ==
  /\ calls[v].pc \in {"awaiting", "iterating"}
  /\ calls[v].op = "stream_chat_completion"
  /\ calls[v].variant = "compatible"
  /\ LET rn == calls[v]
     IN /\ calls' = [calls EXCEPT ![v] = NoRun]
        /\ ret' = RunRet("stream_raised", [rn EXCEPT !.pc = "idle"],
                         Raised(provider_error(rn.variant, rn.op, e)), VendorInput("fault", e))
  /\ UNCHANGED runFrame

\* lines 234-238 from word i on: the next fragment, or the end of the
\* generator when there is no word left
gemini_emit(rn, words, i) ==
  IF i <= Len(words)
    THEN LET chunk == gemini_chunk(words, i)
             r == [rn EXCEPT !.pc = "at_yield", !.words = words, !.i = i,
                     !.events = @ \o <<Ev("callback", chunk), Ev("yield", chunk)>>]
         IN [run |-> r, ret |-> RunRet("fragment", r, Returned(chunk), NoVendorInput)]
    ELSE [run |-> NoRun,
          ret |-> RunRet("stream_end", [rn EXCEPT !.pc = "idle", !.words = words],
                         Returned(<<>>), NoVendorInput)]

\* lines 229-237: the Gemini variant's chat_completion returns the reply text
GeminiCompleted(v, text) ==
  /\ calls[v].pc = "awaiting"
  /\ calls[v].op = "stream_chat_completion"
  /\ calls[v].variant = "gemini"
  /\ LET rn == [calls[v] EXCEPT !.events = Append(@, Ev("completed", text))]
         e == gemini_emit(rn, split(text, <<>>), 1)
     IN /\ calls' = [calls EXCEPT ![v] = e.run]
        /\ ret' = [e.ret EXCEPT !.input = VendorInput("reply", text)]
  /\ UNCHANGED runFrame

\* line 229 with lines 219-220: the Gemini variant's chat_completion raises
\* for the vendor's e, and stream_chat_completion lets that through
GeminiStreamFails(v, e) ==
  /\ calls[v].pc = "awaiting"
  /\ calls[v].op = "stream_chat_completion"
  /\ calls[v].variant = "gemini"
  /\ LET rn == calls[v]
     IN /\ calls' = [calls EXCEPT ![v] = NoRun]
        /\ ret' = RunRet("stream_raised", [rn EXCEPT !.pc = "idle"],
                         Raised(provider_error(rn.variant, "chat_completion", e)), VendorInput("fault", e))
  /\ UNCHANGED runFrame

\* the consumer's next __anext__ at a yield: the compatible variant waits for
\* the next chunk; the Gemini variant sleeps (line 238) and goes on with the
\* next word
FragmentNext(v) ==
  /\ calls[v].pc = "at_yield"
  /\ IF calls[v].variant = "gemini"
       THEN LET e == gemini_emit(calls[v], calls[v].words, calls[v].i + 1)
            IN /\ calls' = [calls EXCEPT ![v] = e.run]
               /\ ret' = e.ret
       ELSE /\ calls' = [calls EXCEPT ![v].pc = "iterating"]
            /\ ret' = RunRet("resumed", calls'[v], Returned(<<>>), NoVendorInput)
  /\ UNCHANGED runFrame

\* the consumer closes the generator at a yield (GeneratorExit is no
\* Exception: no except clause runs)
FragmentClose(v) ==
  /\ calls[v].pc = "at_yield"
  /\ calls' = [calls EXCEPT ![v] = NoRun]
  /\ ret' = RunRet("stream_closed", [calls[v] EXCEPT !.pc = "idle"], Returned(<<>>), NoVendorInput)
  /\ UNCHANGED runFrame

\* ConnectionTestResult as test_connection builds it (ai_types.py:120-126):
\* the fields it does not pass keep their default None
ProbeResult(success, response_time, error, model_count) ==
  [success |-> success, response_time |-> response_time, error |-> error,
   model_count |-> model_count]

\* a test_connection without its except clause
test_connection_unguarded(variant, start_time, now, fault, model_count) ==
  IF fault # None
    THEN Raised(fault[1])
    ELSE Returned(ProbeResult(TRUE, Some((now - start_time) * 1000), None,
                              IF variant = "gemini" THEN None ELSE Some(model_count)))

\* ai_client.py:77-90 and :177-193 from the return of the probe call: fault is
\* None or Some(the exception it raised), now is time.time() at its return,
\* model_count is len(models.data)
test_connection_result(variant, start_time, now, fault, model_count) ==
  IF fault # None
    THEN Returned(ProbeResult(FALSE, None, Some(fault[1].message), None))
    ELSE Returned(ProbeResult(TRUE, Some((now - start_time) * 1000), None,
                              IF variant = "gemini" THEN None ELSE Some(model_count)))

\* the seconds a probe call takes and the models a listing holds
ProbeSeconds == {0, 1}
ModelCounts == {0, 2}

\* test_connection(), up to the probe call (models.list(), or
\* generate_content("Hello") in a thread)
TestConnection(v, variant) ==
  /\ calls[v].pc = "idle"
  /\ LET rn == [NoRun EXCEPT !.pc = "probing", !.variant = variant,
                  !.op = "test_connection", !.i = clock]
     IN /\ calls' = [calls EXCEPT ![v] = rn]
        /\ ret' = RunRet("probe_call", rn, Returned(<<>>), NoVendorInput)
  /\ UNCHANGED runFrame

\* the probe call returns or raises after some seconds
TestConnectionReturns(v, seconds, fault, model_count) ==
  /\ calls[v].pc = "probing"
  /\ fault # None \/ calls[v].variant = "gemini" => model_count = 0
  /\ LET rn == calls[v]
     IN /\ calls' = [calls EXCEPT ![v] = NoRun]
        /\ ret' = RunRet("test_connection", [rn EXCEPT !.pc = "idle"],
                         test_connection_result(rn.variant, rn.i, rn.i + seconds,
                                                fault, model_count),
                         IF fault = None
                           THEN VendorInput("reply", <<seconds, model_count>>)
                           ELSE VendorInput("fault", fault[1]))
  /\ UNCHANGED runFrame

InitVariants ==
  /\ env = [p \in AIProvider |-> IF p = "deepseek" THEN "k1" ELSE ""]
  /\ LET r == construct(env, None, "ok", TRUE)
     IN /\ settings = r.settings
        /\ config_file = r.file
  /\ chat_histories = <<>>
  /\ clients = <<>>
  /\ orphans = 0
  /\ calls = [v \in RunIds |-> NoRun]
  /\ appended = <<>>
  /\ origin = <<>>
  /\ ret = NoRet
  /\ model_cache = <<>>
  /\ clock = 0

NextVariants ==
  \/ \E v \in RunIds, variant \in Variants, m \in RequestMessages :
       ChatCompletion(v, variant, m)
  \/ \E v \in RunIds, ch \in ReplyChoices : ChatCompletionReturns(v, ch, <<>>)
  \/ \E v \in RunIds, t \in ReplyTexts : ChatCompletionReturns(v, <<>>, t)
  \/ \E v \in RunIds, e \in VendorFaults : ChatCompletionFails(v, e)
  \/ \E v \in RunIds, variant \in Variants, m \in RequestMessages :
       StreamChatCompletion(v, variant, m)
  \/ \E v \in RunIds : StreamOpened(v)
  \/ \E v \in RunIds, chunk \in VendorChunks : StreamChunk(v, chunk)
  \/ \E v \in RunIds : StreamExhausted(v)
  \/ \E v \in RunIds, e \in VendorFaults : StreamFails(v, e)
  \/ \E v \in RunIds, t \in ReplyTexts : GeminiCompleted(v, t)
  \/ \E v \in RunIds, e \in VendorFaults : GeminiStreamFails(v, e)
  \/ \E v \in RunIds : FragmentNext(v)
  \/ \E v \in RunIds : FragmentClose(v)
  \/ \E v \in RunIds, variant \in Variants : TestConnection(v, variant)
  \/ \E v \in RunIds, sec \in ProbeSeconds, n \in ModelCounts :
       TestConnectionReturns(v, sec, None, n)
  \/ \E v \in RunIds, sec \in ProbeSeconds, e \in VendorFaults :
       TestConnectionReturns(v, sec, Some(e), 0)

SpecVariants == InitVariants /\ [][NextVariants]_vars

(* ------------------------ the life of a group -------------------------- *)

\* the documents import_config reads in this part: they change the prompt
LifeDocs == {d \in ConfigDocs : d.max_history_length = 2 /\ d.system_prompt = <<"T">>}

\* the provider arguments of this part: the default provider, which passes
\* validation, and one without a config
LifeProviders == {"", "demo"}

NextLife ==
  \/ \E g \in TwoGroups : GetChatHistory(g)
  \/ \E g \in TwoGroups : GroupRoom(g) /\ AddMessage(g, "user", <<"a">>)
  \/ \E g \in TwoGroups : ClearChatHistory(g)
  \/ ClearAllHistories
  \/ \E doc \in LifeDocs : ImportConfig(doc, TRUE)
  \/ \E g \in TwoGroups, p \in LifeProviders :
       GroupRoom(g) /\ StartResponse("c1", <<"b">>, g, p, "ok")
  \/ Respond("c1", << <<"x">> >>, None)
  \/ \E g \in TwoGroups, p \in LifeProviders :
       GroupRoom(g) /\ StartStream("c1", <<"b">>, g, p, "ok")
  \/ Delta("c1", <<"x">>)
  \/ StreamEnd("c1")
  \/ ConsumerNext("c1")

SpecLife == InitFirstRun /\ [][NextLife]_vars

(* ------------------------ the model cache on its own ------------------- *)

\* In this part an endpoint, like a credential, is a sequence of characters.
\* Credentials: none, an underscore, and the two that share their first eight
\* characters; endpoints: with and without a leading underscore.
CacheKeys == FetchKeys \cup {<<"_">>}
CacheUrls == {<<"x">>, <<"_", "x">>}
CacheLists == {<<StrId("alpha")>>, <<StrId("beta")>>}

\* model_cache.cache_models(api_key, base_url, models)
CacheModels(api_key, base_url, models) ==
  /\ model_cache' = cache_models(model_cache, api_key, base_url, models, clock)
  /\ ret' = [op |-> "cache_models", api_key |-> api_key, base_url |-> base_url,
             models |-> models, pre_cache |-> model_cache, now |-> clock]
  /\ UNCHANGED <<clock, fetchFrame>>

NextCache ==
  \/ \E k \in CacheKeys, u \in CacheUrls : GetCachedModels(k, u)
  \/ \E k \in CacheKeys, u \in CacheUrls, m \in CacheLists : CacheModels(k, u, m)
  \/ ClearCache
  \/ Tick(CacheTimeout)

SpecCache == InitFirstRun /\ [][NextCache]_vars

(* ------------------------ service detection ---------------------------- *)

\* the pieces of the endpoints handed to detect_service_type: the texts its
\* rules look for, in lower and in mixed case, and texts no rule looks for
UrlPieces ==
  {"deepseek", "DeepSeek", "DashScope.Aliyuncs.com",
   "generativelanguage.googleapis.com", "api.openai.com", "API.OpenAI.com",
   "claude", "Anthropic", "my.host", "/v1"}

\* the longest endpoint, in pieces
MaxUrlPieces == 2

DetectUrls == UNION {[1..n -> UrlPieces] : n \in 0..MaxUrlPieces}

\* ModelFetcher.detect_service_type(base_url)
DetectServiceType(base_url) ==
  /\ ret' = [op |-> "detect_service_type", base_url |-> base_url,
             result |-> detect_service_type(base_url)]
  /\ UNCHANGED <<settings, config_file, chat_histories, callVars, histObs, env, fetchVars>>

NextDetect == \E u \in DetectUrls : DetectServiceType(u)

SpecDetect == InitFirstRun /\ [][NextDetect]_vars

(* ------------------------ the manager's connection test ---------------- *)

\* a selection that hands every provider to the client manager
enabled_configs_unfiltered(s) ==
  LET listed == SelectSeq(ProviderOrder, LAMBDA p : p \in DOMAIN s.providers)
  IN [i \in DOMAIN listed |->
        [provider |-> listed[i], config |-> s.providers[listed[i]], live |-> TRUE]]

\* ai_manager.py:175-178: the providers that are enabled and have a
\* credential, in dict order, each with its config object (live: the object
\* is still the one settings.providers holds)
enabled_configs(s) ==
  LET listed == SelectSeq(ProviderOrder,
                          LAMBDA p : /\ p \in DOMAIN s.providers
                                     /\ s.providers[p].enabled
                                     /\ s.providers[p].api_key # "")
  IN [i \in DOMAIN listed |->
        [provider |-> listed[i], config |-> s.providers[listed[i]], live |-> TRUE]]

\* ModernAIManager.test_connections(), up to its first suspension or its return
TestConnections(t, outcome) ==
  TestAllConnections(t, enabled_configs(settings), outcome)

\* set_api_key(provider, api_key) while connection tests may be suspended: the
\* config object is changed in place, so the tests that hold it see the change
SetApiKeyShared(provider, api_key, write_ok) ==
  /\ provider \in DOMAIN settings.providers
  /\ settings' = [settings EXCEPT !.providers[provider].api_key = api_key]
  /\ config_file' = save_config(config_file, settings', write_ok)
  /\ calls' = [c \in DOMAIN calls |->
                 [calls[c] EXCEPT !.configs =
                    [i \in DOMAIN @ |->
                       IF @[i].provider = provider /\ @[i].live
                         THEN [@[i] EXCEPT !.config.api_key = api_key]
                         ELSE @[i]]]]
  /\ ret' = SetterRet("set_api_key", <<provider, api_key>>, write_ok, "None")
  /\ UNCHANGED <<chat_histories, clients, orphans, histObs, env, fetchVars>>

\* set_provider_config(provider, config) while connection tests may be
\* suspended: the tests keep the object that was replaced
SetProviderConfigShared(provider, config, write_ok) ==
  /\ settings' = [settings EXCEPT !.providers = Extend(@, provider, config)]
  /\ config_file' = save_config(config_file, settings', write_ok)
  /\ calls' = [c \in DOMAIN calls |->
                 [calls[c] EXCEPT !.configs =
                    [i \in DOMAIN @ |->
                       IF @[i].provider = provider
                         THEN [@[i] EXCEPT !.live = FALSE]
                         ELSE @[i]]]]
  /\ ret' = SetterRet("set_provider_config", <<provider, config>>, write_ok, "None")
  /\ UNCHANGED <<chat_histories, clients, orphans, histObs, env, fetchVars>>

\* the configs the settings dialog replaces a provider's config by
DialogConfigs == {ChangedConfig, [ChangedConfig EXCEPT !.enabled = FALSE]}

NextTestConnections ==
  \/ \E o \in StartOutcomes : TestConnections("t1", o)
  \/ \E f \in {None} \cup {Some(x) : x \in Faults}, o \in StartOutcomes :
       ProbeReturns("t1", f, o)
  \/ \E p \in ProbeProviders, k \in ApiKeys : SetApiKeyShared(p, k, TRUE)
  \/ \E p \in ProbeProviders, cf \in DialogConfigs : SetProviderConfigShared(p, cf, TRUE)

SpecTestConnections == InitClients /\ [][NextTestConnections]_vars

(* ------------------------------ claims -------------------------------- *)

\* the last n elements of seq
LastN(seq, n) == SubSeq(seq, Len(seq) - n + 1, Len(seq))

\* C1: after N add_message calls on a group whose history was created (or
\* cleared) under a max_history_length L >= 0 that kept its value since, the
\* history has exactly min(N, L) + 1 elements and element 0 is the system
\* message synthesized at that creation.
C1_LengthAfterAppends ==
  \A g \in DOMAIN chat_histories :
    origin[g].Lconst =>
      /\ Len(chat_histories[g]) =
           Min(Len(appended[g]), settings.max_history_length) + 1
      /\ chat_histories[g][1] = origin[g].system

\* C2: with max_history_length L fixed since the group's creation or last
\* clear, the elements after the system message are exactly the last
\* min(N, L) messages passed to add_message, in call order.
C2_LastAppendedKept ==
  \A g \in DOMAIN chat_histories :
    origin[g].Lconst =>
      SubSeq(chat_histories[g], 2, Len(chat_histories[g])) =
        LastN(appended[g], Min(Len(appended[g]), settings.max_history_length))

\* C3: in every reachable state every history has at most
\* max_history_length + 1 elements, for the current max_history_length.
C3_HistoryBounded ==
  \A g \in DOMAIN chat_histories :
    Len(chat_histories[g]) <= settings.max_history_length + 1

\* C4: get_chat_history on a group never accessed returns exactly one message,
\* of role system and with the system prompt current at the call; on a group
\* that has a history it returns that history as it was and leaves it in place.
C4_LazyInit ==
  ret.op = "get_chat_history" =>
    IF ret.fresh
      THEN ret.result = Returned(<<[role |-> "system", content |-> ret.prompt]>>)
      ELSE /\ ret.result = Returned(ret.pre[ret.group])
           /\ chat_histories[ret.group] = ret.pre[ret.group]

\* get_chat_history returned an existing history of several messages whose
\* system message carries a prompt that is no longer the current one
C4_Witness ==
  /\ ret.op = "get_chat_history"
  /\ ~ret.fresh
  /\ Len(ret.result.value) > 2
  /\ ret.result.value[1].content # settings.system_prompt

\* the provider fails validation: no config, disabled, or no credential
NotUsable(s, provider) ==
  \/ provider \notin DOMAIN s.providers
  \/ ~s.providers[provider].enabled
  \/ s.providers[provider].api_key = ""

\* C5: when the resolved provider has no config, is disabled or has an empty
\* credential, get_ai_response returns the not-configured text, leaves the
\* history map as it was (no user turn, no group created) and neither creates
\* nor invokes a client.
C5_NotConfiguredResponse ==
  (ret.op = "get_ai_response" /\ ~ret.resumed
     /\ NotUsable(settings, ret.call.provider)) =>
    /\ ret.result = Returned(NotConfiguredText(ret.call.provider))
    /\ chat_histories = ret.pre
    /\ clients = ret.pre_clients
    /\ ret.call.own = <<>>
    /\ ~ret.call.invoked

\* get_ai_response refused a disabled provider that has a credential, on a
\* group with a history and with a client in the cache
C5_Witness ==
  /\ ret.op = "get_ai_response" /\ ~ret.resumed
  /\ ret.call.provider \in DOMAIN settings.providers
  /\ ~settings.providers[ret.call.provider].enabled
  /\ settings.providers[ret.call.provider].api_key # ""
  /\ ret.group \in DOMAIN ret.pre
  /\ Len(ret.pre[ret.group]) > 1
  /\ clients # <<>>

\* C6: get_ai_response never raises: whatever validation, client construction,
\* session opening and chat_completion do, it returns a text.
C6_ResponseNeverRaises ==
  ret.op = "get_ai_response" =>
    /\ ~ret.result.raised
    /\ ret.result.value \in Seq(STRING)

\* get_ai_response returned the error text for a fault the client raised
C6_Witness ==
  /\ ret.op = "get_ai_response" /\ ret.resumed
  /\ ret.input.fault # None
  /\ ret.result = Returned(ErrorText(ChatFaultText(ret.input.fault[1])))

\* C7: on the success path of get_ai_response the client is invoked with the
\* group's history as it is after the user turn was appended and trimmed
\* (system message first, the user turn last), and when the client returns a
\* non-empty content the assistant turn recorded last carries the returned text.
C7_SuccessPathOrder ==
  /\ (ret.op = "invoke" /\ ret.call.kind = "response") =>
       LET req == ret.call.request
       IN /\ req = chat_histories[ret.group]
          /\ req[1].role = "system"
          /\ Last(req) = ChatMessage("user", ret.call.message)
          /\ settings.max_history_length >= 1 =>
               Len(req) <= settings.max_history_length + 1
          /\ \A i \in DOMAIN ret.call.own : ret.call.own[i].role # "assistant"
  /\ (ret.op = "get_ai_response" /\ ret.resumed /\ ret.input.fault = None
        /\ ret.input.choices # <<>> /\ ret.input.choices[1] # <<>>) =>
       /\ ret.result = Returned(Strip(ret.input.choices[1]))
       /\ Last(chat_histories[ret.group]) = ChatMessage("assistant", ret.result.value)
       /\ ret.call.own = <<ChatMessage("user", ret.call.message),
                           ChatMessage("assistant", ret.result.value)>>

\* get_ai_response returned the stripped text of a padded reply, on a history
\* that the retention step had to trim
C7_Witness ==
  /\ ret.op = "get_ai_response" /\ ret.resumed
  /\ ret.input.choices = << <<" ", "y", " ">> >>
  /\ ret.result.value = <<"y">>
  /\ settings.max_history_length = 1
  /\ Len(ret.pre[ret.group]) = 2

\* C8: when the consumer of get_ai_response_stream stops before the stream is
\* exhausted, the call has appended no assistant message: closing the
\* generator leaves the history map as it was, the call's own contribution
\* is at most its user turn, and after an invoked client the group's history
\* is still the one the request was built from.
C8_AbandonedStream ==
  ret.op = "stream_abandoned" =>
    /\ chat_histories = ret.pre
    /\ Len(ret.call.own) <= 1
    /\ \A i \in DOMAIN ret.call.own :
         ret.call.own[i] = ChatMessage("user", ret.call.message)
    /\ ret.call.invoked =>
         /\ ret.call.own = <<ChatMessage("user", ret.call.message)>>
         /\ chat_histories[ret.group] = ret.call.request

\* the consumer stopped at the first fragment of a stream that was delivering
C8_Witness ==
  /\ ret.op = "stream_abandoned"
  /\ ret.call.status = "abandoned"
  /\ Len(ret.call.yielded) = 1
  /\ ret.call.full_response # <<>>

\* C9 as stated: every get_ai_response_stream call consumed to exhaustion
\* with at least one fragment has appended exactly one assistant message,
\* the concatenation of the yielded fragments.
C9_ExhaustedStreamRecorded ==
  (ret.op = "stream_end" /\ ret.call.yielded # <<>>) =>
    /\ ret.call.own = <<ChatMessage("user", ret.call.message),
                        ChatMessage("assistant", Concat(ret.call.yielded))>>
    /\ Last(chat_histories[ret.group]) =
         ChatMessage("assistant", Concat(ret.call.yielded))

\* C9, for the calls whose client stream ended without a fault: consumed to
\* exhaustion with at least one fragment, the call has appended exactly one
\* assistant message, the in-order concatenation of the yielded fragments,
\* as the step that follows the last fragment; while fragments are being
\* delivered, and on the calls that yield the not-configured or an error
\* text, the call has appended no assistant message.
C9_CompletedStreamRecorded ==
  /\ (ret.op = "stream_end" /\ ret.call.status = "completed"
        /\ ret.call.yielded # <<>>) =>
       /\ ret.call.own = <<ChatMessage("user", ret.call.message),
                           ChatMessage("assistant", Concat(ret.call.yielded))>>
       /\ Last(chat_histories[ret.group]) =
            ChatMessage("assistant", Concat(ret.call.yielded))
       /\ ret.pre[ret.group] = ret.call.request
  /\ (ret.op = "stream_end" /\ ret.call.status # "completed") =>
       /\ chat_histories = ret.pre
       /\ \A i \in DOMAIN ret.call.own : ret.call.own[i].role # "assistant"
  /\ \A c \in CallIds :
       calls[c].kind = "stream" =>
         \A i \in DOMAIN calls[c].own : calls[c].own[i].role # "assistant"

\* a stream of two fragments was consumed to its end
C9_Witness ==
  /\ ret.op = "stream_end"
  /\ ret.call.status = "completed"
  /\ Len(ret.call.yielded) = 2
  /\ ret.call.yielded[1] # ret.call.yielded[2]

\* C10: when the resolved provider has no config, is disabled or has an empty
\* credential, get_ai_response_stream yields the not-configured text as its
\* only fragment and then terminates; the history map and the client cache
\* stay as they were and neither the client nor on_chunk is invoked.
C10_NotConfiguredStream ==
  /\ (ret.op = "fragment" /\ ~ret.resumed) =>
       (NotUsable(settings, ret.call.provider) <=> ret.call.status = "notconf")
  /\ (ret.op = "fragment" /\ ~ret.resumed
        /\ NotUsable(settings, ret.call.provider)) =>
       /\ ret.result = Returned(NotConfiguredText(ret.call.provider))
       /\ ret.call.yielded = <<NotConfiguredText(ret.call.provider)>>
       /\ chat_histories = ret.pre
       /\ clients = ret.pre_clients
  /\ \A c \in CallIds :
       calls[c].status = "notconf" =>
         /\ calls[c].pc = "final_yield"
         /\ Len(calls[c].yielded) = 1
  /\ (ret.op \in {"fragment", "stream_end", "stream_abandoned"}
        /\ ret.call.status = "notconf") =>
       /\ ret.call.yielded = <<NotConfiguredText(ret.call.provider)>>
       /\ chat_histories = ret.pre
       /\ clients = ret.pre_clients
       /\ ret.call.own = <<>>
       /\ ret.call.cb = <<>>
       /\ ret.call.invoked = FALSE

\* a stream on a provider without a credential, on a group that was never
\* accessed, ended after its one fragment
C10_Witness ==
  /\ ret.op = "stream_end"
  /\ ret.call.status = "notconf"
  /\ ret.call.provider \in DOMAIN settings.providers
  /\ ret.group \notin DOMAIN chat_histories

\* the step is an operation addressed to group g: a call of one of the
\* operations with that group, or the resumption of a call made with it
AddressedTo(g) ==
  \/ GetChatHistory(g)
  \/ \E role \in Roles, content \in Contents : AddMessage(g, role, content)
  \/ ClearChatHistory(g)
  \/ \E c \in CallIds, m \in UserMessages, p \in ProviderArgs, o \in StartOutcomes :
       StartResponse(c, m, g, p, o) \/ StartStream(c, m, g, p, o)
  \/ \E c \in CallIds :
       /\ calls[c].group = g
       /\ \/ \E ch \in ReplyChoices : Respond(c, ch, None)
          \/ \E t \in DeltaTexts : Delta(c, t)
          \/ StreamEnd(c)
          \/ ConsumerNext(c)

\* the step leaves every group other than g as it was: absent, or with the
\* same history
FrameOf(g) ==
  \A g2 \in TwoGroups \ {g} :
    /\ g2 \in DOMAIN chat_histories' <=> g2 \in DOMAIN chat_histories
    /\ g2 \in DOMAIN chat_histories => chat_histories'[g2] = chat_histories[g2]

\* C11: an operation addressed to group g (get_chat_history, add_message,
\* clear_chat_history, get_ai_response, get_ai_response_stream, in each of
\* their steps) leaves the history of every other group unchanged and does
\* not create another group.
C11_GroupsIndependent ==
  [][\A g \in TwoGroups : AddressedTo(g) => FrameOf(g)]_vars

\* get_ai_response on g1 recorded its assistant turn while g2 had a history
\* of several messages
C11_Witness ==
  /\ ret.op = "get_ai_response" /\ ret.resumed
  /\ ret.group = "g1"
  /\ ret.call.status = "completed"
  /\ "g2" \in DOMAIN chat_histories
  /\ Len(chat_histories["g2"]) > 1
  /\ chat_histories["g2"] # chat_histories["g1"]

\* C12: element 0 of a history is the system message synthesized from the
\* prompt that was current when the history was created or last cleared;
\* later changes of Settings.system_prompt do not reach it.
C12_PromptNotRetroactive ==
  \A g \in DOMAIN chat_histories :
    /\ chat_histories[g][1] = origin[g].system
    /\ origin[g].system.role = "system"

\* a history with messages kept its system message after the prompt changed
C12_Witness ==
  \E g \in DOMAIN chat_histories :
    /\ Len(chat_histories[g]) > 1
    /\ Len(appended[g]) > 0
    /\ chat_histories[g][1].content # settings.system_prompt

\* C13: every group present in the history map has a non-empty history whose
\* first element has role system, whatever roles were passed to add_message
\* and whatever the retention step dropped.
C13_SystemFirst ==
  \A g \in DOMAIN chat_histories :
    /\ Len(chat_histories[g]) >= 1
    /\ chat_histories[g][1].role = "system"

\* the retention step dropped two of three appended messages, the one kept
\* being of role system itself
C13_Witness ==
  \E g \in DOMAIN chat_histories :
    /\ settings.max_history_length = 1
    /\ Len(appended[g]) = 3
    /\ Len(chat_histories[g]) = 2
    /\ chat_histories[g][2].role = "system"
    /\ appended[g][1].role = "user"

\* C14: get_ai_response calls on one group are not serialized. While two
\* calls are suspended at their network calls, no assistant turn of either
\* is recorded, the request of the call that started later is the history as
\* it is and contains the request of the earlier call, unanswered user turn
\* included, as a proper prefix; and a returning call records its assistant
\* turn at the end of the history as it is then, wherever its own user turn
\* is.
C14_NotSerialized ==
  /\ \A c, d \in RaceCallIds :
       (c # d /\ calls[c].pc = "awaiting" /\ calls[d].pc = "awaiting"
          /\ calls[c].group = calls[d].group
          /\ Len(calls[c].request) <= Len(calls[d].request)) =>
         LET h == chat_histories[calls[c].group]
         IN /\ calls[d].request = h
            /\ Len(calls[c].request) < Len(h)
            /\ SubSeq(h, 1, Len(calls[c].request)) = calls[c].request
            /\ h[Len(calls[c].request)] = ChatMessage("user", calls[c].message)
            /\ Last(h) = ChatMessage("user", calls[d].message)
            /\ calls[c].own = <<ChatMessage("user", calls[c].message)>>
            /\ calls[d].own = <<ChatMessage("user", calls[d].message)>>
  /\ (ret.op = "get_ai_response" /\ ret.resumed
        /\ ret.call.status = "completed") =>
       chat_histories[ret.group] =
         Append(ret.pre[ret.group], ChatMessage("assistant", ret.result.value))

\* the call that sent "a" started first and returned last: both user turns
\* precede both assistant turns, which are in the opposite order
C14_Witness ==
  /\ ret.op = "get_ai_response" /\ ret.resumed
  /\ ret.call.message = <<"a">>
  /\ ret.call.request =
       <<ChatMessage("system", DefaultPrompt), ChatMessage("user", <<"a">>)>>
  /\ chat_histories["g1"] =
       <<ChatMessage("system", DefaultPrompt),
         ChatMessage("user", <<"a">>), ChatMessage("user", <<"b">>),
         ChatMessage("assistant", <<"y">>), ChatMessage("assistant", <<"x">>)>>

\* the entry the cache held for the key of the operation ret records
RetKey == get_cache_key(ret.api_key, ret.base_url)
RetAge == ret.now - ret.pre_cache[RetKey].timestamp

\* C15: a fetch thread that finds an entry of less than 300 seconds for its
\* (credential prefix, endpoint) key emits the stored list, makes no network
\* call whatever the network would have answered, and leaves the cache alone.
C15_FreshEntryServed ==
  (ret.op = "resolve" /\ RetKey \in DOMAIN ret.pre_cache) =>
    (RetAge < CacheTimeout =>
       /\ ret.signal = "models_fetched"
       /\ ret.models = ret.pre_cache[RetKey].models
       /\ ~ret.called
       /\ model_cache = ret.pre_cache)

\* with the network timing out, a thread given a credential was served the
\* live list stored 299 seconds before
C15_Witness ==
  /\ ret.op = "resolve"
  /\ ret.net.kind = "timeout"
  /\ ret.api_key # <<>>
  /\ RetKey \in DOMAIN ret.pre_cache
  /\ RetAge = 299
  /\ ret.models = <<StrId("alpha"), StrId("beta")>>

\* C16: a fetch thread writes the cache only with the list of a successful
\* live listing; a run that ends in a static default list leaves the cache
\* as it was.
C16_OnlyLiveListingsCached ==
  (ret.op = "resolve" /\ model_cache # ret.pre_cache) =>
    /\ ret.called
    /\ ret.sync = "completes"
    /\ ret.net.kind = "ok"
    /\ collect_ids(ret.net.data) # <<>>
    /\ ret.models = Sorted(collect_ids(ret.net.data))

\* C17: get_models_with_fallback never raises and hands back a non-empty
\* list for every credential, endpoint and answer of the network; with an
\* empty credential or endpoint it is a static default list and the network
\* is not used.
C17_FallbackTotal ==
  ret.op = "get_models_with_fallback" =>
    /\ ~ret.result.raised
    /\ ~ret.result.none
    /\ ret.result.models # <<>>
    /\ (ret.api_key = <<>> \/ ret.base_url = <<>>) =>
         /\ ~ret.result.called
         /\ \E t \in DOMAIN DefaultModels : ret.result.models = DefaultModels[t]

\* the listing's body had no "data": the fetch handed back None and the
\* vendor's default list was returned
C17_Witness ==
  /\ ret.op = "get_models_with_fallback"
  /\ ret.net.kind = "no_data"
  /\ ret.sync = "completes"
  /\ ret.result.called
  /\ ret.result.models = DefaultModels["deepseek"]

\* C18: get_cached_models hands back the stored list exactly when the key has
\* an entry whose age is below 300 seconds; at 300 seconds or more, or
\* without an entry, it reports a miss.
C18_CacheValidity ==
  ret.op = "get_cached_models" =>
    IF RetKey \in DOMAIN ret.pre_cache /\ RetAge < CacheTimeout
      THEN ret.result = Some(ret.pre_cache[RetKey].models)
      ELSE ret.result = None

\* a lookup at an age of exactly 300 seconds missed
C18_Witness ==
  /\ ret.op = "get_cached_models"
  /\ RetKey \in DOMAIN ret.pre_cache
  /\ RetAge = 300
  /\ ret.result = None

\* the entry of provider p in a document's providers, if it has one
EntryOf(doc, p) ==
  LET entries == Get(doc, "providers", <<>>)
  IN {entries[i] : i \in {j \in DOMAIN entries : entries[j].name = p}}

\* C19: after construction over a persisted document, every provider whose
\* environment variable is non-empty has the environment's value as its
\* credential, and its other fields have the values the document gives them.
C19_EnvOverridesDocument ==
  (ret.op = "construct" /\ ret.file # None /\ ret.ok) =>
    \A p \in AIProvider :
      env[p] # "" =>
        /\ settings.providers[p].api_key = env[p]
        /\ \A e \in EntryOf(ret.file[1], p) :
             \A k \in DOMAIN e.fields \ {"api_key"} :
               settings.providers[p][k] = e.fields[k]

\* C20: a load_config that reports failure leaves the in-memory Settings
\* equal, in every field, to what they were before the call.
C20_FailedLoadKeepsSettings ==
  (ret.op = "load_config" /\ ~ret.ok) => settings = ret.pre_settings

\* C21: a store constructed on the serialization of Settings has Settings
\* equal to them in every field, whatever providers set_provider_config
\* added and whether or not proxy and custom_headers are present.
C21_RoundTrip ==
  (ret.op = "reopen" /\ ret.file = Some(serialize_settings(ret.pre_settings))) =>
    settings = ret.pre_settings

\* the setters of the configuration store
Setters == {"set_provider_config", "set_api_key", "reset_to_defaults", "import_config"}

\* C22: after a setter whose write succeeded, called on a store whose file
\* was current, the file holds the serialization of the in-memory Settings;
\* after one whose write failed the setter has returned without raising and
\* the Settings hold the value it was given.
C22_SettersPersist ==
  ret.op \in Setters =>
    /\ ~ret.result.raised
    /\ (ret.write_ok /\ ret.pre_synced) =>
         config_file = Some(serialize_settings(settings))
    /\ (~ret.write_ok /\ ret.op = "set_provider_config") =>
         settings.providers[ret.args[1]] = ret.args[2]
    /\ (~ret.write_ok /\ ret.op = "set_api_key"
          /\ ret.args[1] \in DOMAIN settings.providers) =>
         settings.providers[ret.args[1]].api_key = ret.args[2]
    /\ (~ret.write_ok /\ ret.op = "reset_to_defaults") =>
         settings = load_env(AISettings, env)
    /\ (~ret.write_ok /\ ret.op = "import_config" /\ ret.returned = "True") =>
         settings = deserialize_settings(settings, ret.args[1]).settings

\* C23: except through close_all, a provider's cached client is never
\* replaced: whatever config a later get_client is given, the cache keeps the
\* client built from the config of the first call, and get_ai_response uses it.
C23_ClientReused ==
  [][ret'.op # "close_all" =>
       \A p \in DOMAIN clients :
         /\ p \in DOMAIN clients'
         /\ clients'[p].config = clients[p].config
         /\ clients'[p].variant = clients[p].variant]_vars

\* get_ai_response has entered a cached client whose config is no longer the
\* provider's config
C23_Witness ==
  /\ ret.op = "invoke"
  /\ ret.call.provider \in DOMAIN ret.pre_clients
  /\ clients[ret.call.provider].config = ret.pre_clients[ret.call.provider].config
  /\ clients[ret.call.provider].config # settings.providers[ret.call.provider]
  /\ settings.providers[ret.call.provider] = ChangedConfig

\* the pairs a test_all_connections call was given
Supplied == {ret.call.request[i] : i \in DOMAIN ret.call.request}

\* C24: when test_all_connections returns, its result has one entry for
\* every pair it was given, and for a pair that is disabled or has an empty
\* credential the entry is a failure, test_connection was not run and no
\* client was constructed.
C24_ProbeResults ==
  (ret.op = "test_all_connections" /\ ~ret.result.raised) =>
    /\ DOMAIN ret.result.value = {x.provider : x \in Supplied}
    /\ \A x \in Supplied :
         ~(x.config.enabled /\ x.config.api_key # "") =>
           /\ ~ret.result.value[x.provider].success
           /\ ~ret.result.value[x.provider].probed
           /\ x.provider \notin ret.call.created

\* a call returned results for a disabled pair and for an enabled pair with
\* an empty credential, having constructed no client
C24_Witness ==
  /\ ret.op = "test_all_connections"
  /\ ~ret.result.raised
  /\ \E x \in Supplied : ~x.config.enabled
  /\ \E x \in Supplied : x.config.enabled /\ x.config.api_key = ""
  /\ ret.call.created = {}
  /\ DOMAIN ret.result.value = {"deepseek", "gemini"}

\* C25: in test_all_connections the client's session is open when
\* test_connection starts and closed when "async with" is left, whatever
\* test_connection returned, and when test_all_connections returns none of
\* the sessions it opened is open.
C25_ProbeSessionScoped ==
  /\ ret.op = "probe" =>
       /\ clients[ret.call.provider].session = "open"
       /\ clients[ret.call.provider].opener = "t1"
  /\ (ret.op \in {"probe", "test_all_connections"} /\ ret.released # None) =>
       ret.released[1].session = "closed"
  /\ (ret.op = "test_all_connections" /\ ~ret.result.raised) =>
       ~ret.call.leaked /\ ret.call.session # "open"

\* C26: after close_all the cache is empty and no client it held has an open
\* session; a get_client for a provider that is not cached constructs the
\* client from the config it is given.
C26_CloseAll ==
  /\ ret.op = "close_all" =>
       /\ clients = <<>>
       /\ \A p \in DOMAIN ret.pre_clients : ret.released[p].session # "open"
  /\ (ret.op = "invoke" /\ ret.call.provider \notin DOMAIN ret.pre_clients) =>
       clients[ret.call.provider].config = settings.providers[ret.call.provider]
  /\ ret.op = "probe" =>
       \A x \in Supplied :
         (x.provider = ret.call.provider /\ x.provider \in ret.call.created) =>
           clients[x.provider].config = x.config

\* close_all ran while test_all_connections was inside test_connection on
\* deepseek; get_ai_response then found the cache empty and constructed a
\* client from the provider's changed config
C26_Witness ==
  /\ ret.op = "invoke"
  /\ ret.pre_clients = <<>>
  /\ ret.call.provider = "deepseek"
  /\ calls["t1"].detached
  /\ calls["t1"].provider = "deepseek"
  /\ calls["t1"].session = "closed"
  /\ clients["deepseek"].config = ChangedConfig
  /\ \E i \in DOMAIN calls["t1"].request :
       /\ calls["t1"].request[i].provider = "deepseek"
       /\ calls["t1"].request[i].config # ChangedConfig


\* the client calls the observer sees: the one in flight, and the one the last
\* step finished or advanced
ObservedRuns ==
  {calls[v] : v \in DOMAIN calls \cap RunIds}
    \cup (IF "run" \in DOMAIN ret THEN {ret.run} ELSE {})

\* the callbacks and the fragments of a client call, in order
Effects(r) == SelectSeq(r.events, LAMBDA e : e.kind \in {"callback", "yield"})

\* the text a chunk's delta carries (empty when it carries none)
DeltaText(chunk) ==
  IF chunk.choices = <<>> THEN <<>>
  ELSE IF chunk.choices[1].content = None THEN <<>>
  ELSE chunk.choices[1].content[1]

\* every fragment of r is one callback followed by one yield of the same text
CallbackThenYield(r, texts) ==
  /\ Len(Effects(r)) = 2 * Len(texts)
  /\ \A k \in DOMAIN texts :
       /\ Effects(r)[2 * k - 1] = Ev("callback", texts[k])
       /\ Effects(r)[2 * k] = Ev("yield", texts[k])

\* C27: in the compatible variant's stream_chat_completion, every delta with
\* non-empty text gives one callback with that text followed by one yield of
\* the same text, in arrival order, and a delta without text gives neither;
\* so the callbacks and the fragments are the same sequence of texts.
C27_CallbackAndYieldPerDelta ==
  \A r \in ObservedRuns :
    r.variant = "compatible" /\ r.op = "stream_chat_completion" =>
      LET deltas == [k \in DOMAIN r.chunks |-> DeltaText(r.chunks[k])]
          texts == SelectSeq(deltas, LAMBDA t : t # <<>>)
          kind(k) == SelectSeq(r.events, LAMBDA e : e.kind = k)
      IN /\ CallbackThenYield(r, texts)
         /\ [k \in DOMAIN kind("callback") |-> kind("callback")[k].text]
              = [k \in DOMAIN kind("yield") |-> kind("yield")[k].text]

\* a stream that delivered a text delta, an empty delta and a second text
\* delta was consumed to its end
C27_Witness ==
  /\ ret.op = "stream_end"
  /\ ret.run.variant = "compatible"
  /\ ret.run.chunks = <<Chunk(<<Some(<<"x">>)>>), Chunk(<<Some(<<>>)>>),
                        Chunk(<<Some(<<"y", " ">>)>>)>>
  /\ Len(Effects(ret.run)) = 4

\* the places of a text where a word starts, and their number
WordStarts(t) ==
  {k \in DOMAIN t : ~IsSpace(t[k]) /\ (k = 1 \/ IsSpace(t[k - 1]))}

\* the k-th word of a text: from the k-th place where a word starts to the
\* last character before the next whitespace
Word(t, k) ==
  LET p == CHOOSE x \in WordStarts(t) :
             Cardinality({y \in WordStarts(t) : y <= x}) = k
      q == CHOOSE x \in p..Len(t) :
             /\ \A j \in p..x : ~IsSpace(t[j])
             /\ x = Len(t) \/ IsSpace(t[x + 1])
  IN SubSeq(t, p, q)

\* C28: in the Gemini variant's stream_chat_completion the completion is
\* finished before the first callback or fragment; every fragment is one
\* callback followed by one yield; the k-th fragment is the k-th
\* whitespace-separated word of the reply, followed by one space unless it is
\* the last word; and the stream ends after the last word, with no fragment
\* for a reply without words.
C28_GeminiFragments ==
  \A r \in ObservedRuns :
    r.variant = "gemini" /\ r.op = "stream_chat_completion" =>
      LET yields == SelectSeq(r.events, LAMBDA e : e.kind = "yield")
          frags == [k \in DOMAIN yields |-> yields[k].text]
          reply == r.events[1].text
          n == Cardinality(WordStarts(reply))
      IN r.events # <<>> =>
           /\ r.events[1].kind = "completed"
           /\ CallbackThenYield(r, frags)
           /\ Len(frags) <= n
           /\ \A k \in DOMAIN frags :
                frags[k] = Word(reply, k) \o (IF k < n THEN <<" ">> ELSE <<>>)
           /\ ret.op = "stream_end" /\ r = ret.run => Len(frags) = n
           /\ r.pc = "at_yield" => Len(frags) > 0

\* a reply of two words separated by a newline was streamed to its end
C28_Witness ==
  /\ ret.op = "stream_end"
  /\ ret.run.variant = "gemini"
  /\ ret.run.events[1] = Ev("completed", <<"x", "\n", "y">>)
  /\ Len(Effects(ret.run)) = 4

\* C29: the prompt the Gemini variant sends is made of the contents of the
\* request's user messages, in their order, separated by newlines, and of
\* nothing from a message of another role.
C29_GeminiPromptUserOnly ==
  \A r \in ObservedRuns :
    r.variant = "gemini" /\ r.sent # None =>
      LET prompt == r.sent[1]
          users == SelectSeq(r.messages, LAMBDA msg : msg.role = "user")
          breaks == SelectSeq(prompt, LAMBDA ch : ch = "\n")
      IN /\ SelectSeq(prompt, LAMBDA ch : ch # "\n")
              = Concat([k \in DOMAIN users |-> users[k].content])
         /\ Len(breaks) = IF users = <<>> THEN 0 ELSE Len(users) - 1
         /\ \A i \in DOMAIN r.messages :
              r.messages[i].role # "user" =>
                \A k \in DOMAIN prompt : prompt[k] # r.messages[i].content[1]

\* a request of a system message and a user message was sent
C29_Witness ==
  /\ ret.op = "vendor_call"
  /\ ret.run.variant = "gemini"
  /\ Len(ret.run.messages) = 2
  /\ ret.run.messages[1].role = "system"
  /\ ret.run.messages[2].role = "user"
  /\ ret.run.sent = Some(ret.run.messages[2].content)

\* whether text t ends with text u
EndsWith(t, u) ==
  Len(u) <= Len(t) /\ SubSeq(t, Len(t) - Len(u) + 1, Len(t)) = u

\* C30: in both variants, a fault of the vendor call during chat_completion
\* or stream_chat_completion, before the first fragment or between fragments,
\* is raised to the caller as a plain Exception whose message ends with the
\* fault's message.
C30_FaultsWrapped ==
  ("run" \in DOMAIN ret /\ ret.run.op # "test_connection") =>
    /\ ret.input.kind = "fault" =>
         /\ ret.result.raised
         /\ ret.result.value.type = "Exception"
         /\ ret.result.value.message # ret.input.value.message
         /\ EndsWith(ret.result.value.message, ret.input.value.message)
    /\ ret.result.raised => ret.input.kind = "fault"

\* the compatible variant's stream raised after it had yielded a fragment
C30_Witness ==
  /\ ret.op = "stream_raised"
  /\ ret.run.variant = "compatible"
  /\ Len(Effects(ret.run)) = 2
  /\ ret.result.raised
  /\ ret.input.value.type = "APITimeoutError"


\* C31: test_connection never raises, in either variant: a fault of the probe
\* call gives a result with success false and the fault's message as error,
\* and a probe call that returns gives success true, a response time and no
\* error.
C31_ProbeNeverRaises ==
  "run" \in DOMAIN ret /\ ret.op = "test_connection" =>
    /\ ~ret.result.raised
    /\ IF ret.input.kind = "fault"
         THEN /\ ~ret.result.value.success
              /\ ret.result.value.error = Some(ret.input.value.message)
         ELSE /\ ret.result.value.success
              /\ ret.result.value.response_time = Some(ret.input.value[1] * 1000)
              /\ ret.result.value.error = None

\* the Gemini variant's probe call raised
C31_Witness ==
  /\ "run" \in DOMAIN ret
  /\ ret.op = "test_connection"
  /\ ret.run.variant = "gemini"
  /\ ret.input.kind = "fault"
  /\ ret.result.value.error = Some(<<"quota">>)


\* the Settings reset_to_defaults leaves, field by field: the built-in
\* defaults, with the credential of each provider whose environment variable
\* is not empty replaced by that variable
IsResetState(s, e) ==
  /\ DOMAIN s.providers = DOMAIN AISettings.providers
  /\ [s EXCEPT !.providers = <<>>] = [AISettings EXCEPT !.providers = <<>>]
  /\ \A p \in DOMAIN s.providers :
       /\ [s.providers[p] EXCEPT !.api_key = ""]
            = [AISettings.providers[p] EXCEPT !.api_key = ""]
       /\ s.providers[p].api_key =
            IF e[p] # "" THEN e[p] ELSE AISettings.providers[p].api_key

\* C32: after reset_to_defaults, whatever the Settings were before, they are
\* the built-in defaults with the credentials of the environment; when the
\* write succeeded the file holds their serialization; and a second
\* reset_to_defaults leaves the Settings, and the file it wrote, as the first
\* left them.
C32_ResetToDefaults ==
  [][/\ ret'.op = "reset_to_defaults" =>
          /\ IsResetState(settings', env')
          /\ ret'.write_ok => config_file' = Some(serialize_settings(settings'))
     /\ ret.op = "reset_to_defaults" /\ ret'.op = "reset_to_defaults" =>
          /\ settings' = settings
          /\ ret.write_ok /\ ret'.write_ok => config_file' = config_file]_vars

\* reset_to_defaults ran on Settings that had been changed since the file was
\* written, and wrote the file
C32_Witness ==
  /\ ret.op = "reset_to_defaults"
  /\ ret.write_ok
  /\ ~ret.pre_synced
  /\ IsResetState(settings, env)
  /\ settings.providers["deepseek"].api_key = "k1"


\* the steps that hand something to the consumer of get_ai_response_stream
StreamOps == {"fragment", "stream_end", "stream_abandoned"}

\* C33: get_ai_response_stream never raises to its consumer. When client
\* construction, session opening or the client's stream fails after k >= 0
\* fragments, the consumer has received those k fragments, then receives one
\* error fragment carrying the fault's text, after which the stream ends;
\* the call records no assistant turn and leaves the history as the user turn
\* left it.
C33_StreamFailsInBand ==
  /\ (ret.op \in StreamOps /\ "call" \in DOMAIN ret) => ~ret.result.raised
  /\ (ret.op = "fragment" /\ ret.call.status = "failed") =>
       /\ ret.call.pc = "final_yield"
       /\ ret.call.yielded = ret.call.cb \o <<ret.result.value>>
       /\ \E f \in Faults :
            ret.result.value \in {ErrorText(f), ErrorText(StreamFaultText(f))}
       /\ ret.resumed => chat_histories = ret.pre
  /\ (ret.op = "stream_end" /\ ret.call.status = "failed") =>
       /\ Len(ret.call.yielded) = Len(ret.call.cb) + 1
       /\ SubSeq(ret.call.yielded, 1, Len(ret.call.cb)) = ret.call.cb
       /\ chat_histories = ret.pre
  /\ (ret.op \in StreamOps /\ "call" \in DOMAIN ret /\ ret.call.status = "failed") =>
       /\ \A i \in DOMAIN ret.call.own : ret.call.own[i].role # "assistant"
       /\ Last(chat_histories[ret.group]) = ChatMessage("user", ret.call.message)

\* the client's stream failed after two fragments and the consumer read the
\* error fragment and the end of the stream
C33_Witness ==
  /\ ret.op = "stream_end"
  /\ ret.call.status = "failed"
  /\ Len(ret.call.cb) = 2
  /\ Len(ret.call.yielded) = 3


\* the rules of service detection in their order: the spellings, among the
\* pieces of this model, of the texts a rule looks for, and its identity
DetectRules ==
  <<[texts |-> {"deepseek", "DeepSeek"}, identity |-> "deepseek"],
    [texts |-> {"DashScope.Aliyuncs.com"}, identity |-> "qianwen"],
    [texts |-> {"generativelanguage.googleapis.com"}, identity |-> "gemini"],
    [texts |-> {"api.openai.com", "API.OpenAI.com"}, identity |-> "openai"],
    [texts |-> {"claude", "Anthropic"}, identity |-> "claude"]>>

\* the rules an endpoint matches
MatchedRules(base_url) ==
  {i \in DOMAIN DetectRules :
     \E k \in DOMAIN base_url : base_url[k] \in DetectRules[i].texts}

\* C34: detect_service_type returns the identity of the earliest rule, in the
\* order deepseek, dashscope.aliyuncs.com, generativelanguage.googleapis.com,
\* api.openai.com, claude/anthropic, whose text occurs in the endpoint in any
\* letter case, and the generic OpenAI-compatible identity when none occurs.
C34_FirstRuleWins ==
  ret.op = "detect_service_type" =>
    LET matched == MatchedRules(ret.base_url)
    IN ret.result =
         IF matched = {} THEN "openai"
         ELSE DetectRules[CHOOSE i \in matched : \A j \in matched : i <= j].identity

\* an endpoint with the text of the fourth rule in mixed case before the text
\* of the first rule was given the first rule's identity
C34_Witness ==
  /\ ret.op = "detect_service_type"
  /\ ret.base_url = <<"API.OpenAI.com", "DeepSeek">>
  /\ ret.result = "deepseek"


\* the entry is older than the timeout at time now
Expired(entry, now) == now - entry.timestamp >= CacheTimeout

\* C35: a lookup leaves the model cache as it is, expired entries included;
\* an expired entry stays as it is through every step but a cache_models on
\* its key and a clear_cache; cache_models sets the entry of its key to the
\* list it is given with the current time and leaves the other entries alone;
\* and after clear_cache every lookup misses.
C35_LookupsLeaveCache ==
  [][/\ ret'.op = "get_cached_models" => model_cache' = model_cache
     /\ \A k \in DOMAIN model_cache :
          Expired(model_cache[k], clock) =>
            \/ k \in DOMAIN model_cache' /\ model_cache'[k] = model_cache[k]
            \/ ret'.op = "clear_cache"
            \/ /\ ret'.op = "cache_models"
               /\ k = get_cache_key(ret'.api_key, ret'.base_url)
     /\ ret'.op = "cache_models" =>
          LET key == get_cache_key(ret'.api_key, ret'.base_url)
          IN /\ DOMAIN model_cache' = DOMAIN model_cache \cup {key}
             /\ model_cache'[key] = [models |-> ret'.models, timestamp |-> clock']
             /\ \A k \in DOMAIN model_cache : k # key => model_cache'[k] = model_cache[k]
     /\ ret'.op = "clear_cache" =>
          \A a \in CacheKeys, u \in CacheUrls :
            get_cached_models(model_cache', a, u, clock') = None]_vars

\* a lookup missed on an expired entry, which is still in the cache
C35_Witness ==
  /\ ret.op = "get_cached_models"
  /\ ret.result = None
  /\ get_cache_key(ret.api_key, ret.base_url) \in DOMAIN model_cache
  /\ Expired(model_cache[get_cache_key(ret.api_key, ret.base_url)], clock)
  /\ Cardinality(DOMAIN model_cache) > 1


\* the first eight characters of a credential (all of a shorter one)
CredentialPrefix(api_key) ==
  [i \in 1..(IF Len(api_key) < KeyPrefixLen THEN Len(api_key) ELSE KeyPrefixLen)
     |-> api_key[i]]

\* C39: the cache key separates entries: the entry that cache_models stored
\* for a (credential, endpoint) pair is the entry of another pair only if the
\* two credentials have the same first eight characters and the two endpoints
\* are equal.
C39_CacheKeySeparates ==
  ret.op = "cache_models" =>
    \A a \in CacheKeys, u \in CacheUrls :
      get_cache_key(a, u) = get_cache_key(ret.api_key, ret.base_url) =>
        /\ CredentialPrefix(a) = CredentialPrefix(ret.api_key)
        /\ u = ret.base_url


\* the step is a call of get_chat_history or add_message on group g, or the
\* start of a get_ai_response or get_ai_response_stream call on g whose
\* provider passes validation, or the step of such a call that records its
\* assistant turn
CreatesGroup(g) ==
  \/ GetChatHistory(g)
  \/ \E role \in Roles, content \in Contents : AddMessage(g, role, content)
  \/ \E c \in CallIds, m \in UserMessages, p \in LifeProviders, o \in StartOutcomes :
       /\ provider_usable(settings, resolve_provider(settings, p))
       /\ StartResponse(c, m, g, p, o) \/ StartStream(c, m, g, p, o)
  \/ \E c \in CallIds :
       /\ calls[c].group = g
       /\ (\E ch \in ReplyChoices : Respond(c, ch, None)) \/ StreamEnd(c)

\* C36: a group without a history gets one only in a step of get_chat_history
\* or add_message on it, or of a get_ai_response or get_ai_response_stream
\* call on it that passed validation; clear_chat_history on a group with a
\* history leaves it exactly one system message with the current prompt, and
\* on a group without a history leaves it without one; clear_all_histories
\* leaves no group with a history.
C36_GroupLifecycle ==
  [][\A g \in TwoGroups :
       /\ (g \notin DOMAIN chat_histories /\ g \in DOMAIN chat_histories')
            => CreatesGroup(g)
       /\ ClearChatHistory(g) =>
            IF g \in DOMAIN chat_histories
              THEN /\ g \in DOMAIN chat_histories'
                   /\ chat_histories'[g] = <<ChatMessage("system", settings.system_prompt)>>
              ELSE g \notin DOMAIN chat_histories'
       /\ ClearAllHistories => g \notin DOMAIN chat_histories']_vars

\* a get_ai_response_stream call that passed validation gave a group its
\* history, after the prompt had been changed, while the other group had a
\* history of several messages
C36_Witness ==
  /\ ret.op = "invoke"
  /\ ret.call.kind = "stream"
  /\ ret.fresh
  /\ settings.system_prompt = <<"T">>
  /\ chat_histories[ret.group] =
       <<ChatMessage("system", <<"T">>), ChatMessage("user", ret.call.message)>>
  /\ \E g \in DOMAIN chat_histories : g # ret.group /\ Len(chat_histories[g]) > 1


\* C37: once no call is in flight, every session that was opened by entering
\* a cached client is closed: no client holds an open session and no open
\* session is left that no client refers to, also after two calls on the same
\* provider overlapped.
C37_SessionsClosed ==
  (\A c \in DOMAIN calls : calls[c].pc = "idle") =>
    /\ orphans = 0
    /\ \A p \in DOMAIN clients : clients[p].session # "open"


\* a validated get_ai_response that has just returned without a reply: the
\* client (or its construction, or the opening of its session) raised, or the
\* completion carried no choice or an empty content
Unanswered(r) ==
  /\ r.op = "get_ai_response"
  /\ r.call.kind = "response"
  /\ IF r.resumed
       THEN \/ r.input.fault # None
            \/ r.input.choices = <<>>
            \/ r.input.choices[1] = <<>>
       ELSE r.call.status = "failed"

\* the request of the call started by this step, on the group whose last call
\* went unanswered, holds that call's user turn right before the new one
NextRequestHoldsTurn ==
  (Unanswered(ret) /\ ret'.op = "invoke" /\ ret'.group = ret.group) =>
    LET req == ret'.call.request
    IN /\ Len(req) >= 3
       /\ req[Len(req) - 1] = ChatMessage("user", ret.call.message)

\* once such a call has returned, the group's history ends with its user
\* turn, which is all the call contributed; the step that resumed the call
\* changed no history and the history is still the request the client got
UserTurnStays ==
  Unanswered(ret) =>
    /\ ret.group \in DOMAIN chat_histories
    /\ Last(chat_histories[ret.group]) = ChatMessage("user", ret.call.message)
    /\ ret.call.own = <<ChatMessage("user", ret.call.message)>>
    /\ ret.resumed =>
         /\ chat_histories = ret.pre
         /\ chat_histories[ret.group] = ret.call.request

\* C38 as stated: after a validated get_ai_response whose client raised or
\* returned an empty reply, the history holds the user turn and no assistant
\* turn, and the next request built for the group holds the unanswered user
\* turn, whatever max_history_length is.
C38_UnansweredTurnInNextRequest ==
  [](UserTurnStays) /\ [][NextRequestHoldsTurn]_vars

\* C38, amended: after a validated get_ai_response whose client raised or
\* returned no choice or an empty content, the group's history is the one
\* the user turn was appended to (and trimmed): it ends with the user turn
\* and no assistant turn was appended; the next request built for the group
\* holds the unanswered user turn unless max_history_length is 1, where the
\* retention step keeps the newest message only.
C38_UserTurnNotRolledBack ==
  /\ [](UserTurnStays)
  /\ [][settings.max_history_length # 1 => NextRequestHoldsTurn]_vars

\* a second call in a row went unanswered: the client raised on a request
\* that held the user turn of the call before it
C38_Witness ==
  /\ Unanswered(ret) /\ ret.resumed /\ ret.input.fault # None
  /\ settings.max_history_length = 2
  /\ Len(ret.call.request) = 3
  /\ ret.call.request[2].role = "user"
  /\ ret.call.request[2] # ret.call.request[3]
  /\ chat_histories[ret.group] = ret.call.request


\* the providers that are enabled and have a non-empty credential
Testable(s) ==
  {p \in DOMAIN s.providers : s.providers[p].enabled /\ s.providers[p].api_key # ""}

\* the providers test_connections handed to the client manager when it was called
Handed(call) == {call.request[i].provider : i \in DOMAIN call.request}

\* this step is the start of a test_connections call
TestConnectionsCalled ==
  /\ calls["t1"].pc = "idle"
  /\ ret'.op \in {"probe", "test_all_connections"}

\* C40: the result of test_connections has exactly one entry for every
\* provider that was enabled with a non-empty credential when
\* test_connections was called, and no entry for any other provider, whatever
\* became of the configs while the tests were running.
C40_OneEntryPerTestable ==
  /\ [][TestConnectionsCalled => Handed(ret'.call) = Testable(settings)]_vars
  /\ []((ret.op = "test_all_connections" /\ ~ret.result.raised) =>
          DOMAIN ret.result.value = Handed(ret.call))

\* a call that found deepseek and gemini testable returned an entry for each,
\* gemini's without a probe because its credential was emptied meanwhile
C40_Witness ==
  /\ ret.op = "test_all_connections"
  /\ ~ret.result.raised
  /\ DOMAIN ret.result.value = {"deepseek", "gemini"}
  /\ ret.result.value["deepseek"].probed
  /\ ~ret.result.value["gemini"].probed
  /\ Testable(settings) = {"deepseek"}

=============================================================================
